---- MODULE Spec2Model ----
(***************************************************************************)
(* Space is Left: the gameplay simulation core of src/engine.h (the game   *)
(* program that starts at line 1643): the line rider, the powerup and      *)
(* particle pools, and the menu / playing / paused / game-over machine     *)
(* driven by UpdateGame once per frame of main's loop.                     *)
(*                                                                         *)
(* The C code computes in 32-bit floats.  The model computes in fixed      *)
(* point, every quantity an integer number of the units below, products    *)
(* truncated by \div where the float would round:                          *)
(*   time (deltaTime, timers, lifetimes, gameTime)  1/1000 s     (MS)      *)
(*   lengths and positions                          1/100 unit   (LEN)     *)
(*   angles                                         1/10000 rad  (ANG)     *)
(*   energy                                         1/1000       (ENERGY)  *)
(*   score                                          1/100 point  (POINT)   *)
(*   slowTimeMultiplier, cameraShake, sin, cos,                            *)
(*   glowIntensity, analog input magnitudes         1/1000       (ONE)     *)
(*   velocities                                     LEN per second         *)
(* difficultyMultiplier is 1.0 or 2.0 in the code and 1 or 2 here.         *)
(***************************************************************************)
EXTENDS Integers, Sequences, FiniteSets, TLC

VARIABLES
    game,           \* GameState* game of main
    randState,      \* the state of libc's rand()
    lastTurnSound,  \* static float lastTurnSound of UpdateLineRider
    played,         \* the sounds PlaySound / PlayFallbackBeep was asked for in the last frame
    frame           \* iterations of main's loop so far

vars == <<game, randState, lastTurnSound, played, frame>>

----------------------------------------------------------------------------
(* Fixed-point scales *)

MS == 1000
LEN == 100
ANG == 10000
ENERGY == 1000
POINT == 100
ONE == 1000

----------------------------------------------------------------------------
(* Game settings, src/engine.h 1657-1677 *)

ARENA_SIZE == 100 * LEN
INITIAL_SEGMENTS == 5
MAX_SEGMENTS == 500
SEGMENT_SIZE == (8 * LEN) \div 10
SEGMENT_SPACING == 1 * LEN
LINE_RIDER_SPEED == 12 * LEN
TURN_SPEED == (28 * ANG) \div 10
ENERGY_DRAIN_RATE == (15 * ENERGY) \div 10
MAX_ENERGY == 100 * ENERGY
ENERGY_BAR_VALUE == 20 * ENERGY
POWERUP_LIFETIME == 30 * MS
POWERUP_SIZE == (8 * LEN) \div 10
PARTICLE_COUNT == 100
STAR_COUNT == 200
HARDCORE_SPEED_MULTI == 2
POWERUP_COUNT == 20
PI == 31416

POWERUP_ENERGY == 0
POWERUP_SPEED_BOOST == 1
POWERUP_SLOW_TIME == 2
POWERUP_SHIELD == 3
POWERUP_SHRINK == 4
POWERUP_BONUS_POINTS == 5
POWERUP_TYPE_COUNT == 6

DIFFICULTY_EASY == 0
DIFFICULTY_HARDCORE == 1

----------------------------------------------------------------------------
(* libm and raymath *)

\* The element of a one-element set. A sequence of C statements s1; s2; is
\* written The({s2(v) : v \in {s1(w)}}): the value of s1 is computed before s2
\* starts, as in the code.
The(S) == CHOOSE v \in S : TRUE

Abs(a) == IF a < 0 THEN -a ELSE a
Max2(a, b) == IF a >= b THEN a ELSE b

\* truncation toward zero, as a C conversion or a float product near zero
Trunc(a, b) == IF a >= 0 THEN a \div b ELSE -((-a) \div b)

\* Heron's iteration down from x >= sqrt(n) to the integer square root of n
RECURSIVE SqrtFrom(_, _)
SqrtFrom(n, x) ==
    IF x = 0 THEN 0
    ELSE The({IF y >= x THEN x ELSE SqrtFrom(n, y) : y \in {(x + n \div x) \div 2}})

\* sinf of an angle in [0, PI] (Bhaskara's rational approximation), in 1/ONE
SinHalf(x) ==
    LET p == (x * (PI - x)) \div 10000
        d == (PI * PI) \div 2000 - 4 * p
    IN  (16 * ONE * p + d \div 2) \div d

\* sinf, in 1/ONE
Sin(a) ==
    LET x == a % (2 * PI)
    IN  IF x <= PI THEN SinHalf(x) ELSE -SinHalf(x - PI)

\* cosf, in 1/ONE
Cos(a) == Sin(a + PI \div 2)

\* atanf of q / ONE for 0 <= q <= ONE
AtanUnit(q) ==
    (q * ((PI \div 4) + ((((273 * ANG) \div 1000) * (ONE - q)) \div ONE))) \div ONE

\* atan2f(y, x)
Atan2(y, x) ==
    LET ay == Abs(y)
        ax == Abs(x)
        first == IF ax = 0 /\ ay = 0 THEN 0
                 ELSE IF ax >= ay THEN AtanUnit((ay * ONE) \div ax)
                 ELSE PI \div 2 - AtanUnit((ax * ONE) \div ay)
        upper == IF x >= 0 THEN first ELSE PI - first
    IN  IF y >= 0 THEN upper ELSE -upper

Vec(x, y, z) == [x |-> x, y |-> y, z |-> z]
Vector3Add(a, b) == Vec(a.x + b.x, a.y + b.y, a.z + b.z)
Vector3Subtract(a, b) == Vec(a.x - b.x, a.y - b.y, a.z - b.z)

\* Vector3Length; beyond 26000 on an axis the squares leave 32 bits and the
\* length is taken at a coarser step, as a float's precision falls with magnitude
Vector3Length(v) ==
    IF Abs(v.x) <= 26000 /\ Abs(v.y) <= 26000 /\ Abs(v.z) <= 26000
    THEN SqrtFrom(v.x * v.x + v.y * v.y + v.z * v.z, Abs(v.x) + Abs(v.y) + Abs(v.z))
    ELSE 64 * SqrtFrom((v.x \div 64) * (v.x \div 64) + (v.y \div 64) * (v.y \div 64)
                         + (v.z \div 64) * (v.z \div 64),
                       Abs(v.x \div 64) + Abs(v.y \div 64) + Abs(v.z \div 64))

\* Vector3Distance(a, b) < r
CloserThan(a, b, r) ==
    LET d == Vector3Subtract(a, b)
    IN  /\ Abs(d.x) < r /\ Abs(d.y) < r /\ Abs(d.z) < r
        /\ d.x * d.x + d.y * d.y + d.z * d.z < r * r

\* rand(): a Lehmer generator stands for libc's
Rand(s) == (s * 171) % 30269

RECURSIVE PowMod(_, _, _)
PowMod(a, n, m) ==
    IF n = 0 THEN 1
    ELSE LET h == PowMod(a, n \div 2, m)
             hh == (h * h) % m
         IN  IF n % 2 = 0 THEN hh ELSE (hh * a) % m

\* the state of rand() after n more calls
RandSkip(s, n) == (s * PowMod(171, n, 30269)) % 30269

----------------------------------------------------------------------------
(* Colours of raylib, as <<r, g, b, a>> *)

SKYBLUE == <<102, 191, 255, 255>>
YELLOW == <<253, 249, 0, 255>>
PURPLE == <<200, 122, 255, 255>>
GREEN == <<0, 228, 48, 255>>
ORANGE == <<255, 161, 0, 255>>
GOLD == <<255, 203, 0, 255>>
WHITE == <<255, 255, 255, 255>>
RED == <<230, 41, 55, 255>>

----------------------------------------------------------------------------
(* The structures after calloc / memset(game, 0, sizeof(GameState)) *)

ZeroVec == Vec(0, 0, 0)
ZeroColor == <<0, 0, 0, 0>>

ZeroParticle ==
    [position |-> ZeroVec, velocity |-> ZeroVec, color |-> ZeroColor,
     lifetime |-> 0, size |-> 0]

ZeroPowerup ==
    [position |-> ZeroVec, type |-> POWERUP_ENERGY, lifetime |-> 0, rotation |-> 0,
     bobOffset |-> 0, active |-> FALSE, color |-> ZeroColor]

\* segments holds the first segmentCount entries of LineRider.segments, the
\* only ones the code reads
ZeroRider ==
    [segments |-> [i \in {} |-> 0], segmentCount |-> 0, direction |-> 0, speed |-> 0,
     energy |-> 0, score |-> 0, alive |-> FALSE, boosted |-> FALSE, boostTimer |-> 0,
     shieldTimer |-> 0, turnsCompleted |-> 0, totalRotation |-> 0]

\* stars holds the state of rand() the star field was drawn from
ZeroGame ==
    [rider |-> ZeroRider,
     powerups |-> [i \in 0..(POWERUP_COUNT - 1) |-> ZeroPowerup],
     particles |-> [j \in 0..(PARTICLE_COUNT - 1) |-> ZeroParticle],
     stars |-> 0, gameTime |-> 0, slowTimeMultiplier |-> 0, level |-> 0,
     paused |-> FALSE, gameOver |-> FALSE, inMenu |-> FALSE,
     difficulty |-> DIFFICULTY_EASY, difficultyMultiplier |-> 0, cameraShake |-> 0,
     powerupSpawnTimer |-> 0, highScore |-> 0, highScoreHardcore |-> 0,
     soundEnabled |-> FALSE, showFPS |-> FALSE]

\* What the functions below pass along: the game, rand()'s state, the static
\* lastTurnSound and the sounds played so far in this frame
World(g, r, l, p) == [game |-> g, rand |-> r, lastTurnSound |-> l, played |-> p]

----------------------------------------------------------------------------
(* Sounds *)

\* PlayPickupSound, PlayBoostSound, ..., PlayLoopCompleteSound
PlayGameSound(w, sound) ==
    IF ~w.game.soundEnabled THEN w
    ELSE [w EXCEPT !.played = Append(@, sound)]

GetPowerupColor(type) ==
    CASE type = POWERUP_ENERGY -> SKYBLUE
      [] type = POWERUP_SPEED_BOOST -> YELLOW
      [] type = POWERUP_SLOW_TIME -> PURPLE
      [] type = POWERUP_SHIELD -> GREEN
      [] type = POWERUP_SHRINK -> ORANGE
      [] type = POWERUP_BONUS_POINTS -> GOLD
      [] OTHER -> WHITE

\* InitStars: five rand() calls for each star
InitStars(w) ==
    [w EXCEPT !.game.stars = w.rand, !.rand = RandSkip(w.rand, 5 * STAR_COUNT)]

----------------------------------------------------------------------------
(* Particles *)

\* a particle written with no lifetime
StillbornParticle(position, color, s) ==
    [position |-> position, velocity |-> ZeroVec, color |-> color, lifetime |-> 0,
     size |-> LEN \div 10]

\* the particle SpawnParticles writes into a free slot, from rand() state s
NewParticle(position, color, s) ==
    LET r1 == Rand(s)
        r2 == Rand(r1)
        r3 == Rand(r2)
        r4 == Rand(r3)
        r5 == Rand(r4)
    IN  [position |-> position,
         velocity |-> Vec((((r1 % 100) - 50) * LEN) \div 10,
                          ((r2 % 100) * LEN) \div 10,
                          (((r3 % 100) - 50) * LEN) \div 10),
         color |-> color,
         lifetime |-> 1 * MS + ((r4 % 100) * MS) \div 100,
         size |-> LEN \div 10 + ((r5 % 30) * LEN) \div 100]

\* the slots SpawnParticles' inner loop can stop at: those with lifetime <= 0,
\* in index order
FreeParticles(particles) ==
    SelectSeq([n \in 1..PARTICLE_COUNT |-> n - 1], LAMBDA j : particles[j].lifetime <= 0)

\* SpawnParticles. Pass i of the outer loop writes the first slot with
\* lifetime <= 0; the slot is then alive (its lifetime is at least 1 s), so
\* pass i + 1 takes the next free one: the passes fill the free slots in index
\* order, the k-th filled slot drawing the k-th five values of rand(), and a
\* pass that finds no free slot writes nothing and draws nothing.
SpawnParticles(w, position, color, count) ==
    The({LET particles == w.game.particles
             passes == IF count < PARTICLE_COUNT THEN count ELSE PARTICLE_COUNT
             filled == IF Len(free) < passes THEN Len(free) ELSE passes
             Filled(j) == /\ filled > 0
                          /\ j <= free[filled]
                          /\ particles[j].lifetime <= 0
             Before(j) == (CHOOSE k \in 1..filled : free[k] = j) - 1
         IN  [w EXCEPT
                 !.game.particles =
                     [j \in 0..(PARTICLE_COUNT - 1) |->
                         IF Filled(j)
                         THEN NewParticle(position, color, RandSkip(w.rand, 5 * Before(j)))
                         ELSE particles[j]],
                 !.rand = RandSkip(w.rand, 5 * filled)] :
         free \in {FreeParticles(w.game.particles)}})

\* the j SpawnParticles' inner loop stops at: the first slot with lifetime <= 0,
\* PARTICLE_COUNT if there is none
FirstFreeParticle(particles) ==
    IF \A j \in 0..(PARTICLE_COUNT - 1) : particles[j].lifetime > 0 THEN PARTICLE_COUNT
    ELSE CHOOSE j \in 0..(PARTICLE_COUNT - 1) :
             /\ particles[j].lifetime <= 0
             /\ \A k \in 0..(j - 1) : particles[k].lifetime > 0

\* one pass of SpawnParticles' outer loop
SpawnParticlePass(w, position, color) ==
    LET j == FirstFreeParticle(w.game.particles)
    IN  IF j >= PARTICLE_COUNT THEN w
        ELSE [w EXCEPT !.game.particles[j] = NewParticle(position, color, w.rand),
                       !.rand = RandSkip(w.rand, 5)]

\* a run of passes of SpawnParticles' outer loop, one after the other (the run
\* is cut in two to keep the evaluation shallow)
RECURSIVE SpawnParticlePasses(_, _, _, _)
SpawnParticlePasses(w, position, color, passes) ==
    IF passes <= 0 THEN w
    ELSE IF passes = 1 THEN SpawnParticlePass(w, position, color)
    ELSE The({SpawnParticlePasses(half, position, color, passes - passes \div 2) :
                 half \in {SpawnParticlePasses(w, position, color, passes \div 2)}})

\* SpawnParticles, loop by loop
SpawnParticlesLoop(w, position, color, count) ==
    SpawnParticlePasses(w, position, color,
                        IF count < PARTICLE_COUNT THEN count ELSE PARTICLE_COUNT)

\* the body of UpdateParticles' loop
UpdateParticle(p, deltaTime) ==
    IF p.lifetime > 0
    THEN LET life == p.lifetime - deltaTime
             alpha == Trunc(255 * life, MS)
         IN  [p EXCEPT !.lifetime = life,
                       !.position = Vec(p.position.x + Trunc(p.velocity.x * deltaTime, MS),
                                        p.position.y + Trunc(p.velocity.y * deltaTime, MS),
                                        p.position.z + Trunc(p.velocity.z * deltaTime, MS)),
                       !.velocity.y = @ - (5 * LEN * deltaTime) \div MS,
                       !.color[4] = IF alpha < 0 THEN 0
                                    ELSE IF alpha > 255 THEN 255 ELSE alpha]
    ELSE p

UpdateParticles(w, deltaTime) ==
    [w EXCEPT !.game.particles =
        [j \in 0..(PARTICLE_COUNT - 1) |-> UpdateParticle(w.game.particles[j], deltaTime)]]

----------------------------------------------------------------------------
(* Powerup spawning *)

\* the i SpawnPowerup's loop stops at: the first inactive slot, POWERUP_COUNT if
\* there is none
FirstFreePowerup(powerups) ==
    LET free == {i \in 0..(POWERUP_COUNT - 1) : ~powerups[i].active}
    IN  IF free = {} THEN POWERUP_COUNT
        ELSE CHOOSE i \in free : \A k \in free : i <= k

\* the powerup SpawnPowerup writes into a free slot, from rand() state s
\* a position whose distance is drawn up to 0.4 x ARENA_SIZE in all
PlaceWithinFortyPercent(angleDraw, distanceDraw) ==
    LET angle == ((angleDraw % 360) * PI) \div 180
        distance == 10 * LEN
                    + (distanceDraw % ((((ARENA_SIZE * 4) \div 10) \div LEN) - 9)) * LEN
    IN  Vec(Trunc(Cos(angle) * distance, ONE), 1 * LEN, Trunc(Sin(angle) * distance, ONE))

\* "Random position in arena", angleDraw and distanceDraw being the two values
\* of rand()
PlacePowerup(angleDraw, distanceDraw) ==
    LET angle == ((angleDraw % 360) * PI) \div 180
        distance == 10 * LEN + (distanceDraw % (((ARENA_SIZE * 4) \div 10) \div LEN)) * LEN
    IN  Vec(Trunc(Cos(angle) * distance, ONE), 1 * LEN, Trunc(Sin(angle) * distance, ONE))

NewPowerup(s) ==
    LET r1 == Rand(s)
        r2 == Rand(r1)
        r3 == Rand(r2)
        r4 == Rand(r3)
        r5 == Rand(r4)
        type == IF r2 % 100 < 40 THEN POWERUP_ENERGY ELSE r1 % POWERUP_TYPE_COUNT
    IN  [position |-> PlacePowerup(r3, r4),
         type |-> type,
         lifetime |-> POWERUP_LIFETIME,
         rotation |-> 0,
         bobOffset |-> ((r5 % 100) * ANG) \div 10,
         active |-> TRUE,
         color |-> GetPowerupColor(type)]

\* a spawn that takes slot 0 when no slot is free
SpawnPowerupEvicting(w) ==
    LET i == FirstFreePowerup(w.game.powerups)
    IN  [w EXCEPT !.game.powerups[IF i >= POWERUP_COUNT THEN 0 ELSE i] = NewPowerup(w.rand),
                  !.rand = RandSkip(w.rand, 5)]

SpawnPowerup(w) ==
    LET i == FirstFreePowerup(w.game.powerups)
    IN  IF i >= POWERUP_COUNT THEN w
        ELSE [w EXCEPT !.game.powerups[i] = NewPowerup(w.rand),
                       !.rand = RandSkip(w.rand, 5)]

----------------------------------------------------------------------------
(* The line rider *)

InitialSegment(i) ==
    [position |-> Vec(0, LEN \div 2, -i * SEGMENT_SPACING),
     previousPos |-> Vec(0, LEN \div 2, -i * SEGMENT_SPACING),
     angle |-> 0,
     color |-> <<100 + (155 * (INITIAL_SEGMENTS - i)) \div INITIAL_SEGMENTS,
                 200 + (55 * (INITIAL_SEGMENTS - i)) \div INITIAL_SEGMENTS,
                 255, 255>>,
     glowIntensity |-> ONE - (i * ONE) \div (2 * INITIAL_SEGMENTS),
     isHead |-> (i = 0)]

\* a rider that starts at the speed of Easy on either difficulty
InitRiderAtEasySpeed(w) ==
    [w EXCEPT !.game.rider =
        [segments |-> [i \in 0..(INITIAL_SEGMENTS - 1) |-> InitialSegment(i)],
         segmentCount |-> INITIAL_SEGMENTS,
         direction |-> 0,
         speed |-> LINE_RIDER_SPEED,
         energy |-> MAX_ENERGY,
         score |-> 0,
         alive |-> TRUE,
         boosted |-> FALSE,
         boostTimer |-> 0,
         shieldTimer |-> 0,
         turnsCompleted |-> 0,
         totalRotation |-> 0]]

InitLineRider(w) ==
    [w EXCEPT !.game.rider =
        [segments |-> [i \in 0..(INITIAL_SEGMENTS - 1) |-> InitialSegment(i)],
         segmentCount |-> INITIAL_SEGMENTS,
         direction |-> 0,
         speed |-> LINE_RIDER_SPEED * w.game.difficultyMultiplier,
         energy |-> MAX_ENERGY,
         score |-> 0,
         alive |-> TRUE,
         boosted |-> FALSE,
         boostTimer |-> 0,
         shieldTimer |-> 0,
         turnsCompleted |-> 0,
         totalRotation |-> 0]]

----------------------------------------------------------------------------
(* Input: raylib's polls and the EngineState fields UpdateGame reads *)

IsKeyDown(e, key) == key \in e.keyDown
IsMouseButtonDown(e, button) == button \in e.keyDown
IsKeyPressed(e, key) == key \in e.keyPressed
IsGamepadButtonDown(e, button) == button \in e.padDown
IsGamepadButtonPressed(e, button) == button \in e.padPressed

\* the turnRate of UpdateLineRider, in 1/ONE
TurnRate(e) ==
    LET keys == IF IsKeyDown(e, "KEY_SPACE") \/ IsMouseButtonDown(e, "MOUSE_LEFT_BUTTON")
                THEN ONE ELSE 0
        button == IF IsGamepadButtonDown(e, "GAMEPAD_BUTTON_RIGHT_FACE_DOWN")
                  THEN ONE ELSE keys
        trigger == IF e.gamepadRightTrigger > ONE \div 10
                   THEN Max2(button, e.gamepadRightTrigger) ELSE button
        stick == IF e.gamepadLeftStickX < -(ONE \div 10)
                 THEN Max2(trigger, Abs(e.gamepadLeftStickX)) ELSE trigger
    IN  IF e.activeGamepad >= 0 THEN stick ELSE keys

----------------------------------------------------------------------------
(* UpdateLineRider, step by step *)

\* a complete turn that needs more than 2 PI
TurnOverComplete(rider) == rider.totalRotation > 2 * PI

\* "Check for complete turns"
TurnComplete(rider) == rider.totalRotation >= 2 * PI

\* a rider that does not answer the turn input
NoTurn(w, e, deltaTime) == w

\* turn left, the turn sound and the check for a complete turn
Turn(w, e, deltaTime) ==
    LET turnRate == TurnRate(e)
        turnAmount == ((((TURN_SPEED * turnRate) \div ONE) * deltaTime) \div MS)
                      * w.game.difficultyMultiplier
        turned == [w EXCEPT !.game.rider.direction = @ + turnAmount,
                            !.game.rider.totalRotation = @ + turnAmount]
        sounded == IF turned.game.gameTime - turned.lastTurnSound > MS \div 10
                   THEN [PlayGameSound(turned, "soundTurn")
                            EXCEPT !.lastTurnSound = turned.game.gameTime]
                   ELSE turned
        lapped == [sounded EXCEPT
                      !.game.rider.turnsCompleted = @ + 1,
                      !.game.rider.totalRotation = @ - 2 * PI,
                      !.game.rider.score =
                          @ + 100 * POINT * (sounded.game.rider.turnsCompleted + 1)]
    IN  IF turnRate > 0
        THEN IF TurnComplete(sounded.game.rider)
             THEN PlayGameSound(
                      SpawnParticles(lapped, lapped.game.rider.segments[0].position, GOLD, 20),
                      "soundLoopComplete")
             ELSE sounded
        ELSE w

\* the head's step, a boost that has run out left on
AdvanceStillBoosted(w, deltaTime) ==
    LET rider == w.game.rider
        boosting == rider.boosted /\ rider.boostTimer > 0
        currentSpeed == IF boosting THEN (rider.speed * 3) \div 2 ELSE rider.speed
        boostTimer == IF boosting THEN rider.boostTimer - deltaTime ELSE rider.boostTimer
        boosted == rider.boosted
        step == (currentSpeed * deltaTime) \div MS
        moveDir == Vec(Trunc(Sin(rider.direction) * step, ONE), 0,
                       Trunc(Cos(rider.direction) * step, ONE))
        head == rider.segments[0]
    IN  [w EXCEPT !.game.rider.boostTimer = boostTimer,
                  !.game.rider.boosted = boosted,
                  !.game.rider.segments[0] =
                      [head EXCEPT !.previousPos = head.position,
                                   !.position = Vector3Add(head.position, moveDir),
                                   !.angle = rider.direction]]

\* the boost countdown and the move of the head
Advance(w, deltaTime) ==
    LET rider == w.game.rider
        boosting == rider.boosted /\ rider.boostTimer > 0
        currentSpeed == IF boosting THEN (rider.speed * 3) \div 2 ELSE rider.speed
        boostTimer == IF boosting THEN rider.boostTimer - deltaTime ELSE rider.boostTimer
        boosted == IF boosting /\ boostTimer <= 0 THEN FALSE ELSE rider.boosted
        step == (currentSpeed * deltaTime) \div MS
        moveDir == Vec(Trunc(Sin(rider.direction) * step, ONE), 0,
                       Trunc(Cos(rider.direction) * step, ONE))
        head == rider.segments[0]
    IN  [w EXCEPT !.game.rider.boostTimer = boostTimer,
                  !.game.rider.boosted = boosted,
                  !.game.rider.segments[0] =
                      [head EXCEPT !.previousPos = head.position,
                                   !.position = Vector3Add(head.position, moveDir),
                                   !.angle = rider.direction]]

\* a segment that stays where it is
StayBehind(segment, prevSegment) == [segment EXCEPT !.previousPos = segment.position]

\* the body of the follow loop: segment follows prevSegment
Follow(segment, prevSegment) ==
    LET toTarget == Vector3Subtract(prevSegment.position, segment.position)
        Lerp(from, to) == from + Trunc(to - from, 2)
    IN  The({IF distance > SEGMENT_SPACING
             THEN LET targetPos ==
                          Vec(prevSegment.position.x
                                - Trunc(toTarget.x * SEGMENT_SPACING, distance),
                              prevSegment.position.y
                                - Trunc(toTarget.y * SEGMENT_SPACING, distance),
                              prevSegment.position.z
                                - Trunc(toTarget.z * SEGMENT_SPACING, distance))
                  IN  [segment EXCEPT
                          !.previousPos = segment.position,
                          !.position = Vec(Lerp(segment.position.x, targetPos.x),
                                           Lerp(segment.position.y, targetPos.y),
                                           Lerp(segment.position.z, targetPos.z)),
                          !.angle = Atan2(toTarget.x, toTarget.z)]
             ELSE [segment EXCEPT !.previousPos = segment.position] :
             distance \in {Vector3Length(toTarget)}})

RECURSIVE FollowFrom(_, _, _)
FollowFrom(segments, segmentCount, i) ==
    IF i >= segmentCount THEN segments
    ELSE The({FollowFrom(next, segmentCount, i + 1) :
                 next \in {[segments EXCEPT ![i] = Follow(segments[i], segments[i - 1])]}})

FollowChain(w) ==
    [w EXCEPT !.game.rider.segments = FollowFrom(@, w.game.rider.segmentCount, 1)]

\* a wrap that handles one axis per tick: z only when x stayed inside
WrapOneAxis(w) ==
    IF Abs(w.game.rider.segments[0].position.x) > ARENA_SIZE \div 2
    THEN LET moved == [w EXCEPT !.game.rider.segments[0].position.x = Trunc(-@ * 95, 100)]
         IN  SpawnParticles(moved, moved.game.rider.segments[0].position, SKYBLUE, 10)
    ELSE IF Abs(w.game.rider.segments[0].position.z) > ARENA_SIZE \div 2
    THEN LET moved == [w EXCEPT !.game.rider.segments[0].position.z = Trunc(-@ * 95, 100)]
         IN  SpawnParticles(moved, moved.game.rider.segments[0].position, SKYBLUE, 10)
    ELSE w

\* the arena boundaries, x then z
WrapBoundary(w) ==
    LET wrapX == IF Abs(w.game.rider.segments[0].position.x) > ARENA_SIZE \div 2
                 THEN LET moved == [w EXCEPT !.game.rider.segments[0].position.x =
                                                 Trunc(-@ * 95, 100)]
                      IN  SpawnParticles(moved, moved.game.rider.segments[0].position,
                                         SKYBLUE, 10)
                 ELSE w
    IN  IF Abs(wrapX.game.rider.segments[0].position.z) > ARENA_SIZE \div 2
        THEN LET moved == [wrapX EXCEPT !.game.rider.segments[0].position.z =
                                            Trunc(-@ * 95, 100)]
             IN  SpawnParticles(moved, moved.game.rider.segments[0].position, SKYBLUE, 10)
        ELSE wrapX

RECURSIVE DeathParticles(_, _)
DeathParticles(w, i) ==
    IF i >= w.game.rider.segmentCount THEN w
    ELSE The({DeathParticles(next, i + 1) :
                 next \in {SpawnParticles(w, w.game.rider.segments[i].position, RED, 5)}})

\* a drain at the same rate on both difficulties
DrainAtEasyRate(w, deltaTime) ==
    LET energy == w.game.rider.energy - (ENERGY_DRAIN_RATE * deltaTime) \div MS
    IN  IF energy <= 0
        THEN [w EXCEPT !.game.rider.energy = 0, !.game.rider.alive = FALSE,
                       !.game.gameOver = TRUE]
        ELSE [w EXCEPT !.game.rider.energy = energy]

\* a rider that loses no energy
NoDrain(w, deltaTime) == w

\* a drain that kills the rider and lets the game go on
StarveInPlay(w, deltaTime) ==
    LET energy == w.game.rider.energy
                  - ((ENERGY_DRAIN_RATE * deltaTime) \div MS) * w.game.difficultyMultiplier
    IN  IF energy <= 0
        THEN DeathParticles([w EXCEPT !.game.rider.energy = 0,
                                      !.game.rider.alive = FALSE], 0)
        ELSE [w EXCEPT !.game.rider.energy = energy]

\* the energy drain and the death it may cause
DrainEnergy(w, deltaTime) ==
    LET energy == w.game.rider.energy
                  - ((ENERGY_DRAIN_RATE * deltaTime) \div MS) * w.game.difficultyMultiplier
    IN  IF energy <= 0
        THEN DeathParticles([w EXCEPT !.game.rider.energy = 0,
                                      !.game.rider.alive = FALSE,
                                      !.game.gameOver = TRUE], 0)
        ELSE [w EXCEPT !.game.rider.energy = energy]

\* the head touches segment i
HeadTouches(rider, i) ==
    CloserThan(rider.segments[0].position, rider.segments[i].position, SEGMENT_SIZE)

\* the head is closer than SEGMENT_SIZE to a segment of index lo..hi
HeadNear(rider, lo, hi) ==
    \E i \in lo..(IF hi < rider.segmentCount THEN hi ELSE rider.segmentCount - 1) :
        HeadTouches(rider, i)

RECURSIVE CollideFrom(_, _)
CollideFrom(w, i) ==
    IF i >= w.game.rider.segmentCount THEN w
    ELSE IF HeadTouches(w.game.rider, i) /\ w.game.rider.shieldTimer <= 0
    THEN The({CollideFrom(next, i + 1) :
                 next \in {PlayGameSound(
                               SpawnParticles([w EXCEPT !.game.rider.alive = FALSE,
                                                        !.game.gameOver = TRUE],
                                              w.game.rider.segments[0].position, RED, 30),
                               "soundGameOver")}})
    ELSE CollideFrom(w, i + 1)

\* a collision check that spares no segment behind the head
CheckFromOne(w) == CollideFrom(w, 1)

\* a collision check that does not look at the shield
CheckIgnoringShield(w) ==
    IF HeadNear(w.game.rider, 4, MAX_SEGMENTS)
    THEN [w EXCEPT !.game.rider.alive = FALSE, !.game.gameOver = TRUE]
    ELSE w

\* a collision check that spares one more segment
CheckFromFive(w) == CollideFrom(w, 5)

\* the self-collision check, from segment 4 on
CheckSelfCollision(w) == CollideFrom(w, 4)

\* a shield that does not run out
ShieldNeverDecays(w, deltaTime) == w

\* "Shield timer"
ShieldDecay(w, deltaTime) ==
    IF w.game.rider.shieldTimer > 0
    THEN [w EXCEPT !.game.rider.shieldTimer = @ - deltaTime]
    ELSE w

\* a score that time takes away
ScoreDecay(w, deltaTime) ==
    [w EXCEPT !.game.rider.score = @ - (deltaTime * 10 * POINT) \div MS]

\* "Add score over time"
ScoreAccrual(w, deltaTime) ==
    [w EXCEPT !.game.rider.score = @ + (deltaTime * 10 * POINT) \div MS]

\* a rider step at the pace of the frames
FrameDeltaTime(g, e) == e.deltaTime

\* float deltaTime = engine->deltaTime * game->slowTimeMultiplier
RiderDeltaTime(g, e) == (e.deltaTime * g.slowTimeMultiplier) \div ONE

\* UpdateLineRider up to the energy drain: turn, advance, follow, wrap
MoveRider(w, e, deltaTime) ==
    The({WrapBoundary(followed) :
          followed \in {FollowChain(advanced) :
            advanced \in {Advance(turned, deltaTime) :
              turned \in {Turn(w, e, deltaTime)}}}})

\* a tick whose shield timer decays before the collision check
DecayBeforeCollision(w, e) ==
    IF ~w.game.rider.alive \/ w.game.paused THEN w
    ELSE LET deltaTime == RiderDeltaTime(w.game, e)
         IN  The({ScoreAccrual(collided, deltaTime) :
               collided \in {CheckSelfCollision(shielded) :
                 shielded \in {ShieldDecay(drained, deltaTime) :
                   drained \in {DrainEnergy(moved, deltaTime) :
                     moved \in {MoveRider(w, e, deltaTime)}}}}})

UpdateLineRider(w, e) ==
    IF ~w.game.rider.alive \/ w.game.paused THEN w
    ELSE LET deltaTime == RiderDeltaTime(w.game, e)
         IN  The({ScoreAccrual(shielded, deltaTime) :
               shielded \in {ShieldDecay(collided, deltaTime) :
                 collided \in {CheckSelfCollision(drained) :
                   drained \in {DrainEnergy(moved, deltaTime) :
                     moved \in {MoveRider(w, e, deltaTime)}}}}})

----------------------------------------------------------------------------
(* Powerups *)

\* a switch whose Shield case also refuels the rider
RefuellingShield(w, type) ==
    IF type = POWERUP_SHIELD
    THEN PlayGameSound([w EXCEPT !.game.rider.shieldTimer = 10 * MS,
                                 !.game.rider.energy = @ + 1], "soundShield")
    ELSE w

\* a pickup that adds a bar of energy without the cap
EnergyUncapped(w, type) ==
    [w EXCEPT !.game.rider.energy = @ + ENERGY_BAR_VALUE]

\* the switch of CollectPowerup
PowerupEffect(w, type) ==
    CASE type = POWERUP_ENERGY ->
            PlayGameSound(
                [w EXCEPT !.game.rider.energy =
                     IF @ + ENERGY_BAR_VALUE > MAX_ENERGY THEN MAX_ENERGY
                     ELSE @ + ENERGY_BAR_VALUE],
                "soundPickup")
      [] type = POWERUP_SPEED_BOOST ->
            PlayGameSound(
                [w EXCEPT !.game.rider.boosted = TRUE, !.game.rider.boostTimer = 5 * MS],
                "soundBoost")
      [] type = POWERUP_SLOW_TIME ->
            PlayGameSound([w EXCEPT !.game.slowTimeMultiplier = ONE \div 2], "soundPickup")
      [] type = POWERUP_SHIELD ->
            PlayGameSound([w EXCEPT !.game.rider.shieldTimer = 10 * MS], "soundShield")
      [] type = POWERUP_SHRINK ->
            PlayGameSound(
                IF w.game.rider.segmentCount > INITIAL_SEGMENTS
                THEN LET n == IF w.game.rider.segmentCount - 3 < INITIAL_SEGMENTS
                              THEN INITIAL_SEGMENTS
                              ELSE w.game.rider.segmentCount - 3
                     IN  [w EXCEPT !.game.rider.segmentCount = n,
                                   !.game.rider.segments =
                                       [i \in 0..(n - 1) |-> w.game.rider.segments[i]]]
                ELSE w,
                "soundPickup")
      [] type = POWERUP_BONUS_POINTS ->
            PlayGameSound([w EXCEPT !.game.rider.score = @ + 500 * POINT], "soundPickup")
      [] OTHER -> w

\* a growth that does not look at MAX_SEGMENTS
GrowWithoutLimit(w, type) ==
    LET rider == w.game.rider
        lastSegment == rider.segments[rider.segmentCount - 1]
    IN  IF type = POWERUP_ENERGY
        THEN [w EXCEPT !.game.rider.segments =
                           [i \in 0..rider.segmentCount |->
                               IF i = rider.segmentCount THEN lastSegment
                               ELSE rider.segments[i]],
                       !.game.rider.segmentCount = rider.segmentCount + 1]
        ELSE w

\* the growth of the line rider at the end of CollectPowerup
GrowRider(w, type) ==
    LET rider == w.game.rider
        newIndex == rider.segmentCount
        lastSegment == rider.segments[rider.segmentCount - 1]
        newSegment == [lastSegment EXCEPT
                          !.position = Vector3Add(lastSegment.position,
                                                  Vec(0, 0, -SEGMENT_SPACING)),
                          !.isHead = FALSE]
    IN  IF rider.segmentCount < MAX_SEGMENTS - 1 /\ type = POWERUP_ENERGY
        THEN [w EXCEPT !.game.rider.segments =
                           [i \in 0..newIndex |->
                               IF i = newIndex THEN newSegment ELSE rider.segments[i]],
                       !.game.rider.segmentCount = newIndex + 1]
        ELSE w

\* a collection without the flat score bonus
CollectWithoutBonus(w, i) ==
    LET powerup == w.game.powerups[i]
        effect == PowerupEffect(w, powerup.type)
        feedback == [SpawnParticles(effect, powerup.position, powerup.color, 20)
                        EXCEPT !.game.cameraShake = ONE \div 5]
    IN  [GrowRider(feedback, powerup.type) EXCEPT !.game.powerups[i].active = FALSE]

\* CollectPowerup(game, &game->powerups[i])
CollectPowerup(w, i) ==
    LET powerup == w.game.powerups[i]
        effect == PowerupEffect(w, powerup.type)
        feedback == [SpawnParticles(effect, powerup.position, powerup.color, 20)
                        EXCEPT !.game.cameraShake = ONE \div 5,
                               !.game.rider.score = @ + 50 * POINT]
    IN  [GrowRider(feedback, powerup.type) EXCEPT !.game.powerups[i].active = FALSE]

\* a loop body that tests the collection before the lifetime
CollectBeforeExpiry(w, i, deltaTime) ==
    LET powerup == w.game.powerups[i]
        lifetime == powerup.lifetime - deltaTime
        aged == [w EXCEPT !.game.powerups[i].lifetime = lifetime]
        collected == IF /\ CloserThan(w.game.rider.segments[0].position,
                                      powerup.position, SEGMENT_SIZE + POWERUP_SIZE)
                        /\ w.game.rider.alive
                     THEN CollectPowerup(aged, i)
                     ELSE aged
    IN  IF ~powerup.active THEN w
        ELSE IF lifetime <= 0
        THEN [collected EXCEPT !.game.powerups[i].active = FALSE]
        ELSE collected

\* a loop body under which no powerup ages
CollectUnaged(w, i, deltaTime) ==
    LET powerup == w.game.powerups[i]
    IN  IF /\ powerup.active
           /\ CloserThan(w.game.rider.segments[0].position,
                         powerup.position, SEGMENT_SIZE + POWERUP_SIZE)
           /\ w.game.rider.alive
        THEN CollectPowerup(w, i)
        ELSE w

\* the body of UpdatePowerups' loop for slot i
UpdatePowerup(w, i, deltaTime) ==
    LET powerup == w.game.powerups[i]
        lifetime == powerup.lifetime - deltaTime
        bob == Trunc(Sin(w.game.gameTime * ((2 * ANG) \div MS) + powerup.bobOffset)
                     * ((2 * LEN) \div 10), ONE)
    IN  IF ~powerup.active THEN w
        ELSE IF lifetime <= 0
        THEN [w EXCEPT !.game.powerups[i].lifetime = lifetime,
                       !.game.powerups[i].active = FALSE]
        ELSE The({LET moved == [w EXCEPT !.game.powerups[i] = animated]
                  IN  IF /\ CloserThan(w.game.rider.segments[0].position,
                                       animated.position, SEGMENT_SIZE + POWERUP_SIZE)
                         /\ w.game.rider.alive
                      THEN CollectPowerup(moved, i)
                      ELSE moved :
                  animated \in {[powerup EXCEPT
                                    !.lifetime = lifetime,
                                    !.rotation = @ + deltaTime * ((2 * ANG) \div MS),
                                    !.position.y = 1 * LEN + bob]}})

RECURSIVE UpdatePowerupsFrom(_, _, _)
UpdatePowerupsFrom(w, i, deltaTime) ==
    IF i >= POWERUP_COUNT THEN w
    ELSE The({UpdatePowerupsFrom(next, i + 1, deltaTime) :
                 next \in {UpdatePowerup(w, i, deltaTime)}})

UpdatePowerups(w, deltaTime) == UpdatePowerupsFrom(w, 0, deltaTime)

----------------------------------------------------------------------------
(* The game *)

RECURSIVE SpawnPowerups(_, _)
SpawnPowerups(w, n) ==
    IF n = 0 THEN w
    ELSE The({SpawnPowerups(next, n - 1) : next \in {SpawnPowerup(w)}})

\* InitGame from "Set difficulty multiplier" on, cleared being the game after
\* the memset and the restores
ResetSession(w, cleared) ==
    LET multiplier == IF cleared.difficulty = DIFFICULTY_HARDCORE
                      THEN HARDCORE_SPEED_MULTI ELSE 1
        set == [cleared EXCEPT
                   !.difficultyMultiplier = multiplier,
                   !.slowTimeMultiplier = ONE,
                   !.level = 1,
                   !.paused = FALSE,
                   !.gameOver = FALSE,
                   !.inMenu = FALSE,
                   !.cameraShake = 0,
                   !.powerupSpawnTimer = (2 * MS) \div multiplier]
    IN  The({SpawnPowerups(stars, 8) :
               stars \in {InitStars(rider) :
                 rider \in {InitLineRider([w EXCEPT !.game = set])}}})

\* a reinitialisation that restores nothing after the memset
InitGameFromZero(w) == ResetSession(w, ZeroGame)

InitGame(w) ==
    ResetSession(w, [ZeroGame EXCEPT
                        !.difficulty = w.game.difficulty,
                        !.highScore = w.game.highScore,
                        !.highScoreHardcore = w.game.highScoreHardcore,
                        !.soundEnabled = w.game.soundEnabled,
                        !.showFPS = w.game.showFPS])

\* a menu that does not answer
MenuIgnoresStart(w, e) == w

\* UpdateGame while game->inMenu
UpdateMenu(w, e) ==
    LET left == IF \/ IsKeyPressed(e, "KEY_LEFT")
                   \/ (e.activeGamepad >= 0
                       /\ IsGamepadButtonPressed(e, "GAMEPAD_BUTTON_LEFT_FACE_LEFT"))
                THEN PlayGameSound([w EXCEPT !.game.difficulty = DIFFICULTY_EASY],
                                   "soundMenuSelect")
                ELSE w
        right == IF \/ IsKeyPressed(e, "KEY_RIGHT")
                    \/ (e.activeGamepad >= 0
                        /\ IsGamepadButtonPressed(e, "GAMEPAD_BUTTON_LEFT_FACE_RIGHT"))
                 THEN PlayGameSound([left EXCEPT !.game.difficulty = DIFFICULTY_HARDCORE],
                                    "soundMenuSelect")
                 ELSE left
    IN  IF \/ IsKeyPressed(e, "KEY_ENTER")
           \/ (e.activeGamepad >= 0
               /\ IsGamepadButtonPressed(e, "GAMEPAD_BUTTON_RIGHT_FACE_DOWN"))
        THEN PlayGameSound(InitGame([right EXCEPT !.game.inMenu = FALSE]), "soundMenuSelect")
        ELSE right

\* a clock that runs through pause and game over
ClockAlwaysRuns(w, e) == [w EXCEPT !.game.gameTime = @ + e.deltaTime]

\* a clock that stops for pause only
ClockRunsWhenOver(w, e) ==
    IF ~w.game.paused
    THEN [w EXCEPT !.game.gameTime = @ + e.deltaTime]
    ELSE w

\* "Update game time"
UpdateGameTime(w, e) ==
    IF ~w.game.paused /\ ~w.game.gameOver
    THEN [w EXCEPT !.game.gameTime = @ + e.deltaTime]
    ELSE w

\* toggles whose pause key also answers after game over
PauseAtAnyTime(w, e) ==
    LET timed == UpdateGameTime(w, e)
        pause == IF \/ IsKeyPressed(e, "KEY_P")
                    \/ (e.activeGamepad >= 0
                        /\ IsGamepadButtonPressed(e, "GAMEPAD_BUTTON_MIDDLE_RIGHT"))
                 THEN PlayGameSound([timed EXCEPT !.game.paused = ~@], "soundPause")
                 ELSE timed
        sound == IF IsKeyPressed(e, "KEY_S")
                 THEN PlayGameSound([pause EXCEPT !.game.soundEnabled = ~@], "soundMenuSelect")
                 ELSE pause
    IN  IF IsKeyPressed(e, "KEY_F")
        THEN [sound EXCEPT !.game.showFPS = ~@]
        ELSE sound

\* UpdateGame from "Update game time" to the F key
UpdateToggles(w, e) ==
    LET timed == UpdateGameTime(w, e)
        pause == IF /\ \/ IsKeyPressed(e, "KEY_P")
                       \/ (e.activeGamepad >= 0
                           /\ IsGamepadButtonPressed(e, "GAMEPAD_BUTTON_MIDDLE_RIGHT"))
                    /\ ~timed.game.gameOver
                 THEN PlayGameSound([timed EXCEPT !.game.paused = ~@], "soundPause")
                 ELSE timed
        sound == IF IsKeyPressed(e, "KEY_S")
                 THEN PlayGameSound([pause EXCEPT !.game.soundEnabled = ~@], "soundMenuSelect")
                 ELSE pause
    IN  IF IsKeyPressed(e, "KEY_F")
        THEN [sound EXCEPT !.game.showFPS = ~@]
        ELSE sound

\* a game over that keeps no record
SaveNothing(g) == g

\* a record that is the last final score
StoreLastScore(g) ==
    IF g.difficulty = DIFFICULTY_HARDCORE
    THEN [g EXCEPT !.highScoreHardcore = g.rider.score \div POINT]
    ELSE [g EXCEPT !.highScore = g.rider.score \div POINT]

\* one record for both difficulties
StoreBothRecords(g) ==
    [g EXCEPT !.highScore = Max2(@, g.rider.score \div POINT),
              !.highScoreHardcore = Max2(@, g.rider.score \div POINT)]

\* "Save high score"
SaveHighScore(g) ==
    IF g.difficulty = DIFFICULTY_HARDCORE
    THEN IF g.rider.score > g.highScoreHardcore * POINT
         THEN [g EXCEPT !.highScoreHardcore = g.rider.score \div POINT]
         ELSE g
    ELSE IF g.rider.score > g.highScore * POINT
         THEN [g EXCEPT !.highScore = g.rider.score \div POINT]
         ELSE g

\* "Spawn new powerups periodically"
RespawnPowerup(w, deltaTime) ==
    LET timer == w.game.powerupSpawnTimer - deltaTime
        spawned == SpawnPowerup(w)
        baseTime == 3 * MS + ((Rand(spawned.rand) % 30) * MS) \div 10
    IN  IF timer <= 0
        THEN [spawned EXCEPT
                 !.rand = Rand(@),
                 !.game.powerupSpawnTimer = baseTime \div w.game.difficultyMultiplier]
        ELSE [w EXCEPT !.game.powerupSpawnTimer = timer]

\* a frame's end that leaves time as slow as it is
KeepSlow(w, deltaTime) ==
    LET shake == w.game.cameraShake - (deltaTime * 2 * ONE) \div MS
    IN  [w EXCEPT
            !.game.cameraShake =
                IF @ > 0 THEN (IF shake < 0 THEN 0 ELSE shake) ELSE @]

\* "Slowly return time to normal" and "Update camera shake"
RelaxTime(w, deltaTime) ==
    LET slow == w.game.slowTimeMultiplier + (deltaTime * ONE) \div (10 * MS)
        shake == w.game.cameraShake - (deltaTime * 2 * ONE) \div MS
    IN  [w EXCEPT
            !.game.slowTimeMultiplier =
                IF @ < ONE THEN (IF slow > ONE THEN ONE ELSE slow) ELSE @,
            !.game.cameraShake =
                IF @ > 0 THEN (IF shake < 0 THEN 0 ELSE shake) ELSE @]

\* UpdateGame from "Update game systems" on
UpdateSystems(w, e) ==
    The({RelaxTime(respawned, e.deltaTime) :
      respawned \in {RespawnPowerup(powerups, e.deltaTime) :
        powerups \in {UpdatePowerups(particles, e.deltaTime) :
          particles \in {UpdateParticles(rider, e.deltaTime) :
            rider \in {UpdateLineRider(w, e)}}}}})

UpdateGame(w, e) ==
    IF w.game.inMenu THEN UpdateMenu(w, e)
    ELSE LET toggled == UpdateToggles(w, e)
             saved == [toggled EXCEPT !.game = SaveHighScore(@)]
         IN  IF toggled.game.gameOver
             THEN IF \/ IsKeyPressed(e, "KEY_ENTER")
                     \/ (e.activeGamepad >= 0
                         /\ IsGamepadButtonPressed(e, "GAMEPAD_BUTTON_RIGHT_FACE_DOWN"))
                  THEN PlayGameSound(InitGame(saved), "soundMenuSelect")
                  ELSE IF \/ IsKeyPressed(e, "KEY_M")
                          \/ (e.activeGamepad >= 0
                              /\ IsGamepadButtonPressed(e, "GAMEPAD_BUTTON_RIGHT_FACE_RIGHT"))
                  THEN PlayGameSound([saved EXCEPT !.game.inMenu = TRUE,
                                                   !.game.gameOver = FALSE],
                                     "soundMenuSelect")
                  ELSE saved
             ELSE IF toggled.game.paused THEN toggled
             ELSE The({UpdateSystems(timed, e) : timed \in {toggled}})

----------------------------------------------------------------------------
(* main *)

\* one frame's input
Input(deltaTime, keyDown, keyPressed) ==
    [deltaTime |-> deltaTime, keyDown |-> keyDown, keyPressed |-> keyPressed,
     activeGamepad |-> -1, padDown |-> {}, padPressed |-> {},
     gamepadRightTrigger |-> 0, gamepadLeftStickX |-> 0]

\* one frame's input with gamepad 0 connected
PadInput(deltaTime, padDown, padPressed, trigger, stickX) ==
    [deltaTime |-> deltaTime, keyDown |-> {}, keyPressed |-> {},
     activeGamepad |-> 0, padDown |-> padDown, padPressed |-> padPressed,
     gamepadRightTrigger |-> trigger, gamepadLeftStickX |-> stickX]

\* the game main enters its loop with
MenuGame ==
    [ZeroGame EXCEPT !.inMenu = TRUE,
                     !.difficulty = DIFFICULTY_EASY,
                     !.difficultyMultiplier = 1,
                     !.soundEnabled = TRUE,
                     !.showFPS = TRUE]

\* main up to its loop, srand(time(NULL)) leaving rand() in one of seeds
MainInit(seeds) ==
    /\ game = MenuGame
    /\ randState \in seeds
    /\ lastTurnSound = 0
    /\ played = << >>
    /\ frame = 0

\* one iteration of main's loop, its input one of inputs
MainLoop(inputs, maxFrames) ==
    /\ frame < maxFrames
    /\ \E e \in inputs :
         \E w \in {UpdateGame(World(game, randState, lastTurnSound, << >>), e)} :
            /\ game' = w.game
            /\ randState' = w.rand
            /\ lastTurnSound' = w.lastTurnSound
            /\ played' = w.played
            /\ frame' = frame + 1

----------------------------------------------------------------------------
(* Riding: the keyboard player picks a difficulty, starts, and steers through *)
(* frames of 1/2 s and 1 s; Stall is a frame the process was held up for.     *)

MaxFrames == 5

Seeds == {1}

Stall == 80 * MS

Inputs ==
    {Input(dt, down, {}) : dt \in {MS \div 2, 1 * MS}, down \in {{}, {"KEY_SPACE"}}}
    \cup {Input(Stall, {}, {})}
    \cup {Input(MS \div 2, {}, {key}) : key \in {"KEY_RIGHT", "KEY_ENTER"}}

Init == MainInit(Seeds)

Next == MainLoop(Inputs, MaxFrames)

Spec == Init /\ [][Next]_vars

----------------------------------------------------------------------------
(* What the claims are stated over *)

\* Enter or gamepad A: the start trigger of the menu, the restart trigger after
\* game over
StartTrigger(e) ==
    \/ IsKeyPressed(e, "KEY_ENTER")
    \/ (e.activeGamepad >= 0
        /\ IsGamepadButtonPressed(e, "GAMEPAD_BUTTON_RIGHT_FACE_DOWN"))

\* P or gamepad Start: the pause toggle
PauseTrigger(e) ==
    \/ IsKeyPressed(e, "KEY_P")
    \/ (e.activeGamepad >= 0
        /\ IsGamepadButtonPressed(e, "GAMEPAD_BUTTON_MIDDLE_RIGHT"))

\* M or gamepad B: the menu-return trigger
MenuTrigger(e) ==
    \/ IsKeyPressed(e, "KEY_M")
    \/ (e.activeGamepad >= 0
        /\ IsGamepadButtonPressed(e, "GAMEPAD_BUTTON_RIGHT_FACE_RIGHT"))

\* the world UpdateGame is called on in the current state
Now == World(game, randState, lastTurnSound, << >>)

\* UpdateGame reaches UpdateLineRider and UpdateLineRider passes its early
\* return, w being the world after UpdateToggles
RiderTicks(w) ==
    /\ ~w.game.inMenu /\ ~w.game.gameOver /\ ~w.game.paused
    /\ w.game.rider.alive

----------------------------------------------------------------------------
\* C1: in every frame in which UpdateLineRider ticks (rider alive, not
\* paused), if the energy is <= 0 after the drain, or the head is closer than
\* SEGMENT_SIZE to a segment of index >= 4 while shieldTimer <= 0, the frame
\* ends with rider.alive = FALSE and gameOver = TRUE; and a frame in which
\* gameOver becomes TRUE is a tick in which one of the two holds.
C1_FatalConditionsEndSession ==
    \A e \in Inputs :
      \A toggled \in {UpdateToggles(Now, e)} :
        \A after \in {UpdateGame(Now, e).game} :
          IF ~game.inMenu /\ RiderTicks(toggled)
          THEN \A moved \in {MoveRider(toggled, e, RiderDeltaTime(toggled.game, e)).game} :
                 LET drain == ((ENERGY_DRAIN_RATE * RiderDeltaTime(toggled.game, e)) \div MS)
                              * game.difficultyMultiplier
                     fatal == \/ moved.rider.energy - drain <= 0
                              \/ /\ HeadNear(moved.rider, 4, MAX_SEGMENTS)
                                 /\ moved.rider.shieldTimer <= 0
                 IN  /\ fatal => ~after.rider.alive /\ after.gameOver
                     /\ after.gameOver => fatal
          ELSE after.gameOver => game.gameOver

\* a session ended by a collision: dead with energy left
C1_Crashed ==
    /\ game.gameOver /\ ~game.rider.alive
    /\ game.rider.energy > 0

----------------------------------------------------------------------------
\* C2: in every reachable state the energy is within 0..MAX_ENERGY (the state
\* before the first InitGame included, where it is 0), and collecting an
\* Energy powerup from a state whose energy is MAX_ENERGY leaves MAX_ENERGY.
C2_EnergyWithinBounds ==
    /\ 0 <= game.rider.energy
    /\ game.rider.energy <= MAX_ENERGY
    /\ \A i \in 0..(POWERUP_COUNT - 1) :
          (game.powerups[i].type = POWERUP_ENERGY /\ game.rider.energy = MAX_ENERGY)
              => CollectPowerup(Now, i).game.rider.energy = MAX_ENERGY

\* an Energy powerup was collected (the rider grew) and the cap applied
C2_CollectedAtFullEnergy ==
    /\ game.rider.segmentCount > INITIAL_SEGMENTS
    /\ game.rider.energy = MAX_ENERGY

----------------------------------------------------------------------------
(* Analog turning: frames of 16 ms with the right trigger or the left stick *)
(* just past the dead zone of 0.1                                           *)

PadInputs ==
    {PadInput(16, {}, {}, trigger, stickX) :
        trigger \in {0, ONE \div 10 + 1}, stickX \in {0, -(ONE \div 10) - 1}}

\* UpdateGame calls InitGame: the start trigger in the menu, the restart
\* trigger after game over
StartsSession(g, e) ==
    /\ g.inMenu \/ g.gameOver
    /\ StartTrigger(e)

\* C3: a frame that does not start a new session leaves rider.direction at
\* least what it was, whatever the input; and a frame in which UpdateLineRider
\* ticks (alive, not paused) with a turn input > 0 and a deltaTime > 0 leaves it
\* strictly greater.
C3_HeadingNeverDecreases ==
    \A e \in Inputs \cup PadInputs :
      \A toggled \in {UpdateToggles(Now, e)} :
        \A after \in {UpdateGame(Now, e).game} :
          /\ ~StartsSession(game, e) => after.rider.direction >= game.rider.direction
          /\ (/\ ~game.inMenu /\ RiderTicks(toggled)
              /\ TurnRate(e) > 0
              /\ RiderDeltaTime(toggled.game, e) > 0)
                 => after.rider.direction > game.rider.direction

\* a rider that has turned
C3_Turned ==
    /\ game.rider.alive
    /\ game.rider.direction > 0

----------------------------------------------------------------------------
(* Circling: frames in which a full turn input turns the rider by exactly PI *)
(* (1122 ms on Easy, 561 ms on Hardcore) or by exactly 2 PI                  *)

LapFrames == 5

LapInputs ==
    {Input(dt, down, {}) : dt \in {561, 1122}, down \in {{}, {"KEY_SPACE"}}}
    \cup {Input(561, {}, {key}) : key \in {"KEY_RIGHT", "KEY_ENTER"}}

LapNext == MainLoop(LapInputs, LapFrames)

LapSpec == Init /\ [][LapNext]_vars

\* C4: the heading of a session is the sum of its turn amounts, and it always
\* equals totalRotation + 2 PI * turnsCompleted; when the turn amounts sum to
\* exactly 2 PI, turnsCompleted is 1 and totalRotation is 0.  In every tick with
\* a turn input, if totalRotation plus the turn amount is at least 2 PI then
\* turnsCompleted grows by exactly one, totalRotation is that sum less 2 PI, and
\* the score grows by 100 * (the new turnsCompleted) on top of the passive
\* 10 * deltaTime; otherwise turnsCompleted is unchanged and the score grows by
\* the passive amount only.
C4_LapDetection ==
    /\ game.rider.direction
          = game.rider.totalRotation + 2 * PI * game.rider.turnsCompleted
    /\ game.rider.direction = 2 * PI
          => game.rider.turnsCompleted = 1 /\ game.rider.totalRotation = 0
    /\ \A e \in LapInputs :
         \A toggled \in {UpdateToggles(Now, e)} :
           (~game.inMenu /\ RiderTicks(toggled) /\ TurnRate(e) > 0) =>
             \A after \in {UpdateLineRider(toggled, e).game.rider} :
               LET deltaTime == RiderDeltaTime(toggled.game, e)
                   turnAmount == ((((TURN_SPEED * TurnRate(e)) \div ONE) * deltaTime) \div MS)
                                 * game.difficultyMultiplier
                   passive == (deltaTime * 10 * POINT) \div MS
                   n == game.rider.turnsCompleted
               IN  IF game.rider.totalRotation + turnAmount >= 2 * PI
                   THEN /\ after.turnsCompleted = n + 1
                        /\ after.totalRotation
                              = game.rider.totalRotation + turnAmount - 2 * PI
                        /\ after.score = game.rider.score + 100 * POINT * (n + 1) + passive
                   ELSE /\ after.turnsCompleted = n
                        /\ after.totalRotation = game.rider.totalRotation + turnAmount
                        /\ after.score = game.rider.score + passive

\* the second lap of a session, each lap closed by turn amounts summing to
\* exactly 2 PI
C4_SecondLapClosed ==
    /\ game.rider.direction = 4 * PI
    /\ game.rider.turnsCompleted = 2
    /\ game.rider.totalRotation = 0
    /\ game.rider.score >= 300 * POINT

----------------------------------------------------------------------------
\* the energy the drain of this tick leaves, before the clamp at 0
DrainedEnergy(w, deltaTime) ==
    w.game.rider.energy
        - ((ENERGY_DRAIN_RATE * deltaTime) \div MS) * w.game.difficultyMultiplier

\* C5: in every tick of UpdateLineRider, a head that is closer than
\* SEGMENT_SIZE to segment 1, 2 or 3 and to no segment of index >= 4 is not
\* killed (the rider is alive at the end of the frame unless its energy ran
\* out), and a head that is closer than SEGMENT_SIZE to a segment of index >= 4
\* while shieldTimer <= 0 is dead at the end of that frame.
C5_FirstSegmentsExempt ==
    \A e \in Inputs :
      \A toggled \in {UpdateToggles(Now, e)} :
        (~game.inMenu /\ RiderTicks(toggled)) =>
          \A moved \in {MoveRider(toggled, e, RiderDeltaTime(toggled.game, e))} :
            \A after \in {UpdateGame(Now, e).game} :
              /\ (/\ HeadNear(moved.game.rider, 1, 3)
                  /\ ~HeadNear(moved.game.rider, 4, MAX_SEGMENTS)
                  /\ DrainedEnergy(moved, RiderDeltaTime(toggled.game, e)) > 0)
                     => after.rider.alive /\ ~after.gameOver
              /\ (/\ HeadNear(moved.game.rider, 4, MAX_SEGMENTS)
                  /\ moved.game.rider.shieldTimer <= 0)
                     => ~after.rider.alive /\ after.gameOver

\* a living rider whose head is within SEGMENT_SIZE of segment 1, 2 or 3
C5_HeadOnFirstSegments ==
    /\ game.rider.alive /\ ~game.gameOver
    /\ HeadNear(game.rider, 1, 3)

----------------------------------------------------------------------------
(* Riding from a start of rand() that puts a Shield powerup on the rider's *)
(* way                                                                    *)

ShieldSeeds == {31}

ShieldInit == MainInit(ShieldSeeds)

ShieldSpec == ShieldInit /\ [][Next]_vars

\* C6: in every tick of UpdateLineRider in which the head is closer than
\* SEGMENT_SIZE to a segment of index >= 4 and shieldTimer > 0 at the collision
\* check, the check changes neither rider.alive nor gameOver, and the rider is
\* alive at the end of the frame if the drain left energy; and in every tick
\* with shieldTimer > 0 in which the drain leaves energy <= 0 the rider is dead
\* and the game over at the end of the frame.
C6_ShieldSuppressesCollision ==
    \A e \in Inputs :
      \A toggled \in {UpdateToggles(Now, e)} :
        (~game.inMenu /\ RiderTicks(toggled) /\ toggled.game.rider.shieldTimer > 0) =>
          \A moved \in {MoveRider(toggled, e, RiderDeltaTime(toggled.game, e))} :
            \A drained \in {DrainEnergy(moved, RiderDeltaTime(toggled.game, e)).game} :
              \A collided \in {CheckSelfCollision(
                                   DrainEnergy(moved, RiderDeltaTime(toggled.game, e))).game} :
                \A after \in {UpdateGame(Now, e).game} :
                  /\ HeadNear(moved.game.rider, 4, MAX_SEGMENTS)
                        => /\ collided.rider.alive = drained.rider.alive
                           /\ collided.gameOver = drained.gameOver
                           /\ DrainedEnergy(moved, RiderDeltaTime(toggled.game, e)) > 0
                                 => after.rider.alive /\ ~after.gameOver
                  /\ DrainedEnergy(moved, RiderDeltaTime(toggled.game, e)) <= 0
                        => ~after.rider.alive /\ after.gameOver

\* a living rider with the shield up whose head is within SEGMENT_SIZE of a
\* segment of index >= 4
C6_ShieldedOverlap ==
    /\ game.rider.alive /\ ~game.gameOver
    /\ game.rider.shieldTimer > 0
    /\ HeadNear(game.rider, 4, MAX_SEGMENTS)

----------------------------------------------------------------------------
(* Sessions: the keyboard player starts, pauses, dies, restarts and returns *)
(* to the menu through frames of 2.1 s, a stalled frame starving the rider  *)

SessionFrames == 7

SessionInputs ==
    {Input(21 * (MS \div 10), {}, {}), Input(Stall, {}, {})}
    \cup {Input(21 * (MS \div 10), {}, {key}) :
            key \in {"KEY_ENTER", "KEY_M", "KEY_P", "KEY_RIGHT", "KEY_LEFT"}}

SessionNext == MainLoop(SessionInputs, SessionFrames)

SessionSpec == Init /\ [][SessionNext]_vars

\* the mode the flags of GameState stand for
Mode(g) ==
    IF g.inMenu THEN "Menu"
    ELSE IF g.gameOver THEN "GameOver"
    ELSE IF g.paused THEN "Paused"
    ELSE "Playing"

\* gamepad presses of A, B and Start
SessionPadInputs ==
    {PadInput(21 * (MS \div 10), {}, {button}, 0, 0) :
        button \in {"GAMEPAD_BUTTON_RIGHT_FACE_DOWN", "GAMEPAD_BUTTON_RIGHT_FACE_RIGHT",
                     "GAMEPAD_BUTTON_MIDDLE_RIGHT"}}

\* a session as InitGame leaves it, by what UpdateGame shows of it
FreshSession(g) ==
    /\ g.gameTime = 0 /\ g.rider.score = 0 /\ g.rider.energy = MAX_ENERGY
    /\ g.rider.alive /\ g.rider.segmentCount = INITIAL_SEGMENTS

\* the mode after a frame, by the mode before it and the frame's triggers;
\* unpausedTicks says whether the frame that leaves Paused may end in GameOver
ModeTable(g, e, after, unpausedTicks) ==
    CASE Mode(g) = "Menu" ->
            IF StartTrigger(e) THEN Mode(after) = "Playing" /\ FreshSession(after)
            ELSE Mode(after) = "Menu"
      [] Mode(g) = "Playing" ->
            IF PauseTrigger(e) THEN Mode(after) = "Paused"
            ELSE IF after.rider.alive THEN Mode(after) = "Playing"
            ELSE Mode(after) = "GameOver"
      [] Mode(g) = "Paused" ->
            IF ~PauseTrigger(e) THEN Mode(after) = "Paused"
            ELSE IF unpausedTicks /\ ~after.rider.alive THEN Mode(after) = "GameOver"
            ELSE Mode(after) = "Playing"
      [] Mode(g) = "GameOver" ->
            IF StartTrigger(e) THEN Mode(after) = "Playing" /\ FreshSession(after)
            ELSE IF MenuTrigger(e) THEN Mode(after) = "Menu"
            ELSE Mode(after) = "GameOver"

----------------------------------------------------------------------------
\* C7, as claimed: every frame follows the table Menu -> Playing on the start
\* trigger (a fresh session), Playing -> Paused and Paused -> Playing on the
\* pause toggle, Playing -> GameOver on the death of the rider, GameOver ->
\* Playing on the restart trigger (a fresh session), GameOver -> Menu on the
\* menu-return trigger, and no change of mode otherwise.
C7_OnlyListedTransitions ==
    \A e \in SessionInputs \cup SessionPadInputs :
        ModeTable(game, e, UpdateGame(Now, e).game, FALSE)

\* C7, amended: every frame follows that table, except that the frame whose
\* pause toggle leaves Paused runs the tick, and goes from Paused to GameOver
\* when the rider dies in it.
C7_TransitionsWithUnpausedTick ==
    \A e \in SessionInputs \cup SessionPadInputs :
        ModeTable(game, e, UpdateGame(Now, e).game, TRUE)

\* a paused game whose unpausing frame kills the rider
C7_UnpauseIntoGameOver ==
    /\ Mode(game) = "Paused"
    /\ \E e \in SessionInputs :
          PauseTrigger(e) /\ Mode(UpdateGame(Now, e).game) = "GameOver"

----------------------------------------------------------------------------
\* C8: InitGame called on any reachable state leaves difficulty, highScore and
\* highScoreHardcore as they were, and leaves the rider at its initial values
\* (INITIAL_SEGMENTS segments in a line behind the origin, energy MAX_ENERGY,
\* score 0, alive, heading 0, totalRotation 0, turnsCompleted 0, boost and
\* shield timers 0), gameTime 0, slowTimeMultiplier 1, paused, gameOver and
\* inMenu false, every particle inactive, and exactly 8 powerups active, each
\* with lifetime POWERUP_LIFETIME.
C8_InitGameResetsSession ==
    \A after \in {InitGame(Now).game} :
        /\ after.difficulty = game.difficulty
        /\ after.highScore = game.highScore
        /\ after.highScoreHardcore = game.highScoreHardcore
        /\ after.rider.segmentCount = INITIAL_SEGMENTS
        /\ DOMAIN after.rider.segments = 0..(INITIAL_SEGMENTS - 1)
        /\ \A i \in 0..(INITIAL_SEGMENTS - 1) :
              after.rider.segments[i].position = Vec(0, LEN \div 2, -i * SEGMENT_SPACING)
        /\ after.rider.energy = MAX_ENERGY
        /\ after.rider.score = 0
        /\ after.rider.alive
        /\ after.rider.direction = 0
        /\ after.rider.totalRotation = 0
        /\ after.rider.turnsCompleted = 0
        /\ after.rider.boostTimer = 0 /\ ~after.rider.boosted
        /\ after.rider.shieldTimer = 0
        /\ after.gameTime = 0
        /\ after.slowTimeMultiplier = ONE
        /\ ~after.paused /\ ~after.gameOver /\ ~after.inMenu
        /\ \A j \in 0..(PARTICLE_COUNT - 1) : after.particles[j].lifetime <= 0
        /\ Cardinality({i \in 0..(POWERUP_COUNT - 1) : after.powerups[i].active}) = 8
        /\ \A i \in 0..(POWERUP_COUNT - 1) :
              after.powerups[i].active => after.powerups[i].lifetime = POWERUP_LIFETIME

\* a session just restarted with a record standing
C8_RestartedWithRecord ==
    /\ Mode(game) = "Playing" /\ game.gameTime = 0
    /\ game.highScore > 0 \/ game.highScoreHardcore > 0

----------------------------------------------------------------------------
\* C9: no frame lowers highScore or highScoreHardcore, and a frame of a game
\* over whose final score is not above the record of its difficulty leaves both
\* records as they were.
C9_HighScoreRatchet ==
    [][/\ game'.highScore >= game.highScore
       /\ game'.highScoreHardcore >= game.highScoreHardcore
       /\ (/\ Mode(game) = "GameOver"
           /\ game.rider.score <= POINT * (IF game.difficulty = DIFFICULTY_HARDCORE
                                             THEN game.highScoreHardcore
                                             ELSE game.highScore))
              => /\ game'.highScore = game.highScore
                 /\ game'.highScoreHardcore = game.highScoreHardcore]_vars

\* a session that ended below the record of its difficulty, the record kept
C9_LowerSessionEnded ==
    /\ Mode(game) = "GameOver"
    /\ game.rider.score > 0
    /\ game.rider.score < POINT * (IF game.difficulty = DIFFICULTY_HARDCORE
                                     THEN game.highScoreHardcore
                                     ELSE game.highScore)

----------------------------------------------------------------------------
----------------------------------------------------------------------------
\* the part of the game the simulation works on: the rider, the two pools, the
\* spawn countdown, the slow-time multiplier and the elapsed game time
Simulation(g) ==
    <<g.rider, g.powerups, g.particles, g.powerupSpawnTimer, g.slowTimeMultiplier,
      g.gameTime>>

\* C11: a frame executed while paused that does not toggle pause leaves the
\* rider, the powerup pool, the particle pool, the spawn countdown, the
\* slow-time multiplier and the game time as they were and the game paused; and
\* the frame that toggles pause off runs the systems on exactly the paused
\* state, without advancing the game time.
C11_PauseSuspendsPipeline ==
    Mode(game) = "Paused" =>
        \A e \in SessionInputs \cup SessionPadInputs :
            \A after \in {UpdateGame(Now, e)} :
                IF PauseTrigger(e)
                THEN /\ ~after.game.paused
                     /\ \A resumed \in {UpdateSystems([Now EXCEPT !.game.paused = FALSE], e)} :
                           /\ Simulation(after.game) = Simulation(resumed.game)
                           /\ after.rand = resumed.rand
                     /\ after.game.gameTime = game.gameTime
                ELSE /\ after.game.paused
                     /\ Simulation(after.game) = Simulation(game)
                     /\ after.rand = randState

\* a game paused in mid-ride, with particles in flight, that a frame has
\* already passed over, and that moves on when unpaused
C11_PausedInFlight ==
    /\ Mode(game) = "Paused"
    /\ game.gameTime >= 2 * 21 * (MS \div 10)
    /\ \E j \in 0..(PARTICLE_COUNT - 1) : game.particles[j].lifetime > 0
    /\ \E e \in SessionInputs :
          /\ PauseTrigger(e)
          /\ UpdateGame(Now, e).game.rider.segments[0].position
                # game.rider.segments[0].position

----------------------------------------------------------------------------
(* The particle pool: from a session just started, bursts of 1, 30 and 101   *)
(* particles at the head of the rider, and the pool ageing by 0.6 s or 1.2 s *)

PoolFrames == 4

BurstSizes == {0, 1, 30, PARTICLE_COUNT + 1}

\* the first frame of a session: Enter in the menu
PoolInit ==
    \E s \in Seeds :
        \E w \in {UpdateGame(World(MenuGame, s, 0, << >>),
                              Input(MS \div 2, {}, {"KEY_ENTER"}))} :
            /\ game = w.game
            /\ randState = w.rand
            /\ lastTurnSound = w.lastTurnSound
            /\ played = w.played
            /\ frame = 0

\* SpawnParticles(game, head->position, GOLD, n)
SpawnStep ==
    /\ frame < PoolFrames
    /\ \E n \in BurstSizes \ {0} :
         \E w \in {SpawnParticles(Now, game.rider.segments[0].position, GOLD, n)} :
            /\ game' = w.game
            /\ randState' = w.rand
            /\ frame' = frame + 1
            /\ UNCHANGED <<lastTurnSound, played>>

\* UpdateParticles(game, deltaTime)
AgeStep ==
    /\ frame < PoolFrames
    /\ \E deltaTime \in {6 * (MS \div 10), 12 * (MS \div 10)} :
         /\ game' = UpdateParticles(Now, deltaTime).game
         /\ frame' = frame + 1
         /\ UNCHANGED <<randState, lastTurnSound, played>>

PoolNext == SpawnStep \/ AgeStep

PoolSpec == PoolInit /\ [][PoolNext]_vars

\* the slots of a pool whose particle is active
ActiveParticles(particles) ==
    {j \in 0..(PARTICLE_COUNT - 1) : particles[j].lifetime > 0}

\* the n lowest members of a set of slots, all of them if it has fewer
LowestSlots(slots, n) ==
    {j \in slots : Cardinality({k \in slots : k < j}) < n}

\* C12: SpawnParticles(n) on a pool with k inactive slots (lifetime <= 0)
\* activates exactly min(n, k) particles, in the lowest-index inactive slots,
\* and leaves every particle that was active as it was; with no inactive slot
\* it changes nothing, rand() included. The loops of the code and the model's
\* one-step SpawnParticles give the same pool.
C12_ParticlePoolSaturation ==
    \A n \in BurstSizes :
        \A after \in {SpawnParticlesLoop(Now, game.rider.segments[0].position, RED, n)} :
            \A before \in {ActiveParticles(game.particles)} :
                \A free \in {(0..(PARTICLE_COUNT - 1)) \ before} :
                    /\ ActiveParticles(after.game.particles)
                           = before \cup LowestSlots(free, n)
                    /\ Cardinality(ActiveParticles(after.game.particles))
                           = Cardinality(before)
                               + (IF n < Cardinality(free) THEN n ELSE Cardinality(free))
                    /\ \A j \in before : after.game.particles[j] = game.particles[j]
                    /\ \A j \in free \ LowestSlots(free, n) :
                           after.game.particles[j] = game.particles[j]
                    /\ free = {} => after = Now
                    /\ Cardinality(ActiveParticles(after.game.particles)) <= PARTICLE_COUNT
                    /\ after = SpawnParticles(Now, game.rider.segments[0].position, RED, n)

\* a pool a burst has filled: every slot active
C12_PoolFull ==
    /\ frame > 0
    /\ ActiveParticles(game.particles) = 0..(PARTICLE_COUNT - 1)

\* a pool with holes between active particles, fewer than a burst of 30 asks for
C12_PoolWithHoles ==
    /\ Cardinality(ActiveParticles(game.particles)) \in (PARTICLE_COUNT - 29)..(PARTICLE_COUNT - 1)
    /\ \E j \in 1..(PARTICLE_COUNT - 1) :
          game.particles[j].lifetime > 0 /\ game.particles[j - 1].lifetime <= 0

----------------------------------------------------------------------------
(* The powerup pool: from a session just started (8 powerups), spawns of 1   *)
(* and of 6 powerups, and the pool ageing by 15 s (two of them expire the    *)
(* powerups of the start)                                                    *)

CrateFrames == 5

\* SpawnPowerup(game), once or six times in a row
CrateSpawnStep ==
    /\ frame < CrateFrames
    /\ \E n \in {1, 6} :
         \E w \in {SpawnPowerups(Now, n)} :
            /\ game' = w.game
            /\ randState' = w.rand
            /\ frame' = frame + 1
            /\ UNCHANGED <<lastTurnSound, played>>

\* UpdatePowerups(game, deltaTime)
CrateAgeStep ==
    /\ frame < CrateFrames
    /\ \E deltaTime \in {15 * MS} :
         \E w \in {UpdatePowerups(Now, deltaTime)} :
            /\ game' = w.game
            /\ randState' = w.rand
            /\ played' = w.played
            /\ frame' = frame + 1
            /\ UNCHANGED lastTurnSound

CrateNext == CrateSpawnStep \/ CrateAgeStep

CrateSpec == PoolInit /\ [][CrateNext]_vars

\* the slots of a pool whose powerup is active
ActivePowerups(powerups) == {i \in 0..(POWERUP_COUNT - 1) : powerups[i].active}

\* C13: SpawnPowerup on a pool with all 20 slots active changes nothing (rand()
\* included); otherwise it activates exactly the lowest-index inactive slot,
\* with lifetime POWERUP_LIFETIME, and leaves every other slot and the rest of
\* the game as they were; the number of active powerups never exceeds 20.
C13_PowerupPoolSaturation ==
    \A after \in {SpawnPowerup(Now)} :
        \A before \in {ActivePowerups(game.powerups)} :
            /\ Cardinality(before) <= 20
            /\ IF Cardinality(before) = 20
               THEN after = Now
               ELSE \E i \in (0..(POWERUP_COUNT - 1)) \ before :
                       /\ \A k \in 0..(i - 1) : k \in before
                       /\ ActivePowerups(after.game.powerups) = before \cup {i}
                       /\ after.game.powerups[i].lifetime = POWERUP_LIFETIME
                       /\ \A k \in (0..(POWERUP_COUNT - 1)) \ {i} :
                             after.game.powerups[k] = game.powerups[k]
                       /\ after.game = [game EXCEPT !.powerups = after.game.powerups]

\* a pool that spawns have filled: all 20 slots active
C13_CratesFull ==
    /\ frame > 0
    /\ Cardinality(ActivePowerups(game.powerups)) = 20

\* a pool whose first slots have expired while later ones are active
C13_CratesWithHoles ==
    /\ ~game.powerups[0].active
    /\ \E i \in 1..(POWERUP_COUNT - 1) : game.powerups[i].active

----------------------------------------------------------------------------
(* Growing and shrinking: riders that Energy pickups have grown to 5, 7, 496 *)
(* and 498 segments collect Energy, Shrink and Bonus powerups as they spawn  *)

GrowthFrames == 4

\* the growth step of CollectPowerup, times times in a row (the run is cut in
\* two to keep the evaluation shallow)
RECURSIVE Lengthened(_, _)
Lengthened(w, times) ==
    IF times <= 0 THEN w
    ELSE IF times = 1 THEN GrowRider(w, POWERUP_ENERGY)
    ELSE The({Lengthened(half, times - times \div 2) :
                 half \in {Lengthened(w, times \div 2)}})

RiderLengths == {INITIAL_SEGMENTS, INITIAL_SEGMENTS + 2, MAX_SEGMENTS - 4, MAX_SEGMENTS - 2}

GrowthInit ==
    \E s \in Seeds, n \in RiderLengths :
        \E w \in {Lengthened(UpdateGame(World(MenuGame, s, 0, << >>),
                                         Input(MS \div 2, {}, {"KEY_ENTER"})),
                              n - INITIAL_SEGMENTS)} :
            /\ game = w.game
            /\ randState = w.rand
            /\ lastTurnSound = w.lastTurnSound
            /\ played = w.played
            /\ frame = 0

\* SpawnPowerup, the powerup being of the given type, and CollectPowerup on it
SpawnAndCollect(w, type) ==
    LET i == FirstFreePowerup(w.game.powerups)
    IN  CollectPowerup([SpawnPowerup(w) EXCEPT
                           !.game.powerups[i].type = type,
                           !.game.powerups[i].color = GetPowerupColor(type)], i)

CollectStep ==
    /\ frame < GrowthFrames
    /\ \E type \in {POWERUP_ENERGY, POWERUP_SHRINK, POWERUP_BONUS_POINTS} :
         \E w \in {SpawnAndCollect(Now, type)} :
            /\ game' = w.game
            /\ randState' = w.rand
            /\ played' = w.played
            /\ frame' = frame + 1
            /\ UNCHANGED lastTurnSound

GrowthSpec == GrowthInit /\ [][CollectStep]_vars

\* C14: in every state of a session INITIAL_SEGMENTS <= rider.segmentCount <=
\* MAX_SEGMENTS and the segments written are those of index below the count,
\* inside the array; a Shrink collection takes 3 segments but never goes below
\* INITIAL_SEGMENTS, an Energy collection adds one segment or none, and no
\* other collection changes the count.
C14_SegmentCountBounded ==
    /\ INITIAL_SEGMENTS <= game.rider.segmentCount
    /\ game.rider.segmentCount <= MAX_SEGMENTS
    /\ DOMAIN game.rider.segments = 0..(game.rider.segmentCount - 1)
    /\ \A type \in POWERUP_ENERGY..POWERUP_BONUS_POINTS :
          \A n \in {SpawnAndCollect(Now, type).game.rider.segmentCount} :
              /\ INITIAL_SEGMENTS <= n /\ n <= MAX_SEGMENTS
              /\ type = POWERUP_SHRINK =>
                    n = Max2(INITIAL_SEGMENTS, game.rider.segmentCount - 3)
              /\ type = POWERUP_ENERGY =>
                    n \in {game.rider.segmentCount, game.rider.segmentCount + 1}
              /\ type \notin {POWERUP_SHRINK, POWERUP_ENERGY} =>
                    n = game.rider.segmentCount

\* a rider at the length where an Energy collection no longer grows it
C14_GrowthStopped ==
    /\ frame > 0
    /\ game.rider.segmentCount >= MAX_SEGMENTS - 1
    /\ SpawnAndCollect(Now, POWERUP_ENERGY).game.rider.segmentCount
          = game.rider.segmentCount

----------------------------------------------------------------------------
\* Vector3Distance(a, b)
Distance(a, b) == Vector3Length(Vector3Subtract(a, b))

\* C15, as claimed: in every state of a session each body segment i >= 1 is at
\* most SEGMENT_SPACING away from segment i - 1.
C15_AdjacentWithinSpacing ==
    \A i \in 1..(game.rider.segmentCount - 1) :
        CloserThan(game.rider.segments[i].position, game.rider.segments[i - 1].position,
                   SEGMENT_SPACING + 1)

\* C15, amended: in every tick the follow loop leaves a body segment that is
\* within SEGMENT_SPACING of the (already moved) segment before it where it
\* is, and moves any other half of the way to the point one spacing behind
\* that segment: from distance d it ends at distance (d + SEGMENT_SPACING) / 2
\* (to the resolution of the model: 0.04, and d / 256 for the lengths computed
\* at a coarser step), not nearer than SEGMENT_SPACING and not farther than d. The boundary wrap then moves the head only.
C15_FollowHalvesExcess ==
    \A e \in Inputs :
        \A toggled \in {UpdateToggles(Now, e)} :
            (~game.inMenu /\ RiderTicks(toggled)) =>
                \A deltaTime \in {RiderDeltaTime(toggled.game, e)} :
                  \A advanced \in {Advance(Turn(toggled, e, deltaTime), deltaTime).game.rider} :
                    \A followed \in {FollowFrom(advanced.segments, advanced.segmentCount, 1)} :
                      /\ followed[0] = advanced.segments[0]
                      /\ \A i \in 1..(advanced.segmentCount - 1) :
                            \A d \in {Distance(advanced.segments[i].position,
                                                followed[i - 1].position)} :
                              \A n \in {Distance(followed[i].position, followed[i - 1].position)} :
                                IF d <= SEGMENT_SPACING
                                THEN followed[i].position = advanced.segments[i].position
                                ELSE /\ n >= SEGMENT_SPACING
                                     /\ n <= d
                                     /\ Abs(2 * n - (d + SEGMENT_SPACING)) <= (4 * LEN) \div 100 + d \div 256
                      /\ \A after \in {UpdateGame(Now, e).game.rider.segments} :
                            \A i \in 1..(advanced.segmentCount - 1) :
                                after[i].position = followed[i].position

\* a rider whose head the wrap has taken across the arena, away from a body
\* that trails more than SEGMENT_SPACING apart
C15_StretchedAcrossArena ==
    /\ frame > 0 /\ game.rider.alive
    /\ ~CloserThan(game.rider.segments[0].position, game.rider.segments[1].position,
                   ARENA_SIZE \div 2)
    /\ \E i \in 2..(game.rider.segmentCount - 1) :
          ~CloserThan(game.rider.segments[i].position, game.rider.segments[i - 1].position,
                      2 * SEGMENT_SPACING)

----------------------------------------------------------------------------
\* the frame that ended in world w played the given sound; with sound enabled,
\* "soundBoost" and "soundShield" are played by the collection of a SpeedBoost
\* and of a Shield and by nothing else
Heard(w, sound) == \E k \in 1..Len(w.played) : w.played[k] = sound

\* the worlds a frame may start from: the current one, and the current one
\* with a SpeedBoost or a Shield just collected
Buffed ==
    IF game.inMenu \/ game.rider.segmentCount = 0 THEN {Now}
    ELSE {Now,
          [SpawnAndCollect(Now, POWERUP_SPEED_BOOST) EXCEPT !.played = << >>],
          [SpawnAndCollect(Now, POWERUP_SHIELD) EXCEPT !.played = << >>]}

\* in a frame that does not start a session, a timer that ends above its value
\* at the start of the frame was set by a collection in that frame
TimersRiseOnCollectionOnly(w, e, after) ==
    StartsSession(w.game, e)
    \/ /\ after.game.rider.boostTimer > w.game.rider.boostTimer =>
             after.game.rider.boostTimer = 5 * MS /\ Heard(after, "soundBoost")
       /\ after.game.rider.shieldTimer > w.game.rider.shieldTimer =>
             after.game.rider.shieldTimer = 10 * MS /\ Heard(after, "soundShield")

----------------------------------------------------------------------------
\* C17: a frame that does not call InitGame leaves rider.score greater than or
\* equal to its value before, whatever the input (a tick adds 10 per second
\* and the lap bonus), and the collection of a powerup of any type adds at
\* least 50 to it.
C17_ScoreNeverDecreases ==
    /\ \A e \in LapInputs \cup PadInputs :
          \A after \in {UpdateGame(Now, e).game} :
              /\ StartsSession(game, e) \/ after.rider.score >= game.rider.score
              /\ \A toggled \in {UpdateToggles(Now, e)} :
                    (~game.inMenu /\ RiderTicks(toggled)) =>
                        after.rider.score >= game.rider.score
                            + (RiderDeltaTime(toggled.game, e) * 10 * POINT) \div MS
    /\ (~game.inMenu /\ game.rider.segmentCount > 0) =>
          \A type \in POWERUP_ENERGY..POWERUP_BONUS_POINTS :
              SpawnAndCollect(Now, type).game.rider.score
                  >= game.rider.score + 50 * POINT

\* a session whose score holds time, a lap bonus and more
C17_ScoreAfterLap ==
    /\ game.rider.alive
    /\ game.rider.turnsCompleted >= 1
    /\ game.rider.score > 100 * POINT * game.rider.turnsCompleted

----------------------------------------------------------------------------
\* the factor of a difficulty: 1 for Easy, HARDCORE_SPEED_MULTI for Hardcore
DifficultyFactor(g) ==
    IF g.difficulty = DIFFICULTY_HARDCORE THEN HARDCORE_SPEED_MULTI ELSE 1

\* C18: in a session the difficulty multiplier is 1 on Easy and 2 on Hardcore,
\* and in every tick the turn amount is TURN_SPEED x turn x deltaTime times
\* that factor, the head moves by LINE_RIDER_SPEED x deltaTime (x 1.5 while
\* boosted) times that factor along the heading, and the energy drain is
\* ENERGY_DRAIN_RATE x deltaTime times that factor: the factor enters each of
\* the three once.
C18_MultiplierAppliedOnce ==
    (~game.inMenu /\ game.rider.segmentCount > 0) =>
        /\ InitGame(Now).game.difficultyMultiplier = DifficultyFactor(game)
        /\ \A w \in {Now, SpawnAndCollect(Now, POWERUP_SPEED_BOOST)} :
            \A e \in LapInputs \cup PadInputs :
              \A toggled \in {UpdateToggles(w, e)} :
                RiderTicks(toggled) =>
                  \A deltaTime \in {RiderDeltaTime(toggled.game, e)} :
                    \A factor \in {DifficultyFactor(w.game)} :
                      \A advanced \in {Advance(Turn(toggled, e, deltaTime), deltaTime)} :
                        \A step \in {((IF w.game.rider.boosted /\ w.game.rider.boostTimer > 0
                                        THEN (LINE_RIDER_SPEED * factor * 3) \div 2
                                        ELSE LINE_RIDER_SPEED * factor) * deltaTime) \div MS} :
                          /\ w.game.difficultyMultiplier = factor
                          /\ advanced.game.rider.direction = w.game.rider.direction
                                + ((((TURN_SPEED * TurnRate(e)) \div ONE) * deltaTime) \div MS)
                                    * factor
                          /\ advanced.game.rider.segments[0].position =
                                Vector3Add(w.game.rider.segments[0].position,
                                    Vec(Trunc(Sin(advanced.game.rider.direction) * step, ONE),
                                        0,
                                        Trunc(Cos(advanced.game.rider.direction) * step, ONE)))
                          /\ DrainEnergy(advanced, deltaTime).game.rider.energy =
                                Max2(0, w.game.rider.energy
                                          - ((ENERGY_DRAIN_RATE * deltaTime) \div MS) * factor)
                          /\ UpdateGame(w, e).game.rider.direction
                                = advanced.game.rider.direction

\* a Hardcore session that has turned, moved and lost energy
C18_HardcoreRiding ==
    /\ game.difficulty = DIFFICULTY_HARDCORE
    /\ game.rider.alive
    /\ game.rider.direction > 0
    /\ game.rider.energy < MAX_ENERGY
    /\ game.rider.segments[0].position # InitialSegment(0).position

\* C19: in a Hardcore session the head speed, the turn amount of a tick and
\* the energy drain of a tick are 4 times what Easy gives for the same frame.
C19_HardcoreFourTimesEasy ==
    (~game.inMenu /\ game.rider.segmentCount > 0
        /\ game.difficulty = DIFFICULTY_HARDCORE) =>
        /\ game.rider.speed = 4 * LINE_RIDER_SPEED
        /\ \A e \in LapInputs \cup PadInputs :
              \A toggled \in {UpdateToggles(Now, e)} :
                RiderTicks(toggled) =>
                  \A deltaTime \in {RiderDeltaTime(toggled.game, e)} :
                    \A advanced \in {Advance(Turn(toggled, e, deltaTime), deltaTime)} :
                      /\ advanced.game.rider.direction = game.rider.direction
                            + 4 * ((((TURN_SPEED * TurnRate(e)) \div ONE) * deltaTime) \div MS)
                      /\ DrainEnergy(advanced, deltaTime).game.rider.energy =
                            Max2(0, game.rider.energy
                                      - 4 * ((ENERGY_DRAIN_RATE * deltaTime) \div MS))

----------------------------------------------------------------------------
\* frames that carry the sound-toggle trigger, alone and with another key
SoundToggleInputs ==
    {Input(MS \div 2, {}, {"KEY_S"} \cup keys) :
        keys \in {{}, {"KEY_ENTER"}, {"KEY_M"}, {"KEY_P"}}}

\* C20: in every game state (Menu, Playing, Paused, GameOver) a tick that
\* carries the sound-toggle trigger flips soundEnabled.
C20_SoundTogglesInEveryMode ==
    \A e \in SoundToggleInputs :
        UpdateGame(Now, e).game.soundEnabled = ~game.soundEnabled

\* outside the menu the S key flips soundEnabled, whether sound was on or off;
\* in the menu the tick returns before the key is read
SoundTogglesInSession ==
    \A w \in {Now, [Now EXCEPT !.game.soundEnabled = ~@]} :
        \A e \in SoundToggleInputs :
            UpdateGame(w, e).game.soundEnabled =
                IF w.game.inMenu THEN w.game.soundEnabled ELSE ~w.game.soundEnabled

----------------------------------------------------------------------------
\* the worlds a tick may start from: the current one, and the current one with
\* a Shield collected whose timer has run down to its last millisecond
ShieldRunningOut ==
    IF game.inMenu \/ game.rider.segmentCount = 0 THEN {Now}
    ELSE {Now,
          [ShieldDecay(SpawnAndCollect(Now, POWERUP_SHIELD), 10 * MS - 1)
              EXCEPT !.played = << >>]}

\* C21: a tick of UpdateLineRider turns (with the lap check), then advances
\* the head along the new heading, then lets every body segment follow the
\* advanced head, then wraps the head alone, then drains the energy, then
\* checks the collision on the wrapped head and the followed body against the
\* shield timer the tick started with, then takes deltaTime off the shield
\* timer, then adds 10 x deltaTime to the score, also in the tick that kills
\* the rider.
C21_TickOrder ==
    \A w \in ShieldRunningOut :
      \A e \in Inputs :
        \A toggled \in {UpdateToggles(w, e)} :
          (~w.game.inMenu /\ RiderTicks(toggled)) =>
            \A deltaTime \in {RiderDeltaTime(toggled.game, e)} :
              \A turned \in {Turn(toggled, e, deltaTime)} :
                \A advanced \in {Advance(turned, deltaTime)} :
                  \A followed \in {FollowChain(advanced)} :
                    \A wrapped \in {WrapBoundary(followed)} :
                      \A result \in {UpdateLineRider(toggled, e).game} :
                        LET rider == result.rider
                            drained == wrapped.game.rider.energy
                                - ((ENERGY_DRAIN_RATE * deltaTime) \div MS)
                                    * w.game.difficultyMultiplier
                            hit == /\ HeadNear(wrapped.game.rider, 4, MAX_SEGMENTS)
                                   /\ w.game.rider.shieldTimer <= 0
                        IN  /\ advanced.game.rider.segments[0].angle
                                  = turned.game.rider.direction
                            /\ followed.game.rider.segments[1] =
                                  Follow(advanced.game.rider.segments[1],
                                         advanced.game.rider.segments[0])
                            /\ \A i \in 1..(rider.segmentCount - 1) :
                                  wrapped.game.rider.segments[i]
                                      = followed.game.rider.segments[i]
                            /\ rider.segments = wrapped.game.rider.segments
                            /\ rider.energy = Max2(0, drained)
                            /\ rider.alive = (drained > 0 /\ ~hit)
                            /\ result.gameOver = ~rider.alive
                            /\ rider.shieldTimer =
                                  IF w.game.rider.shieldTimer > 0
                                  THEN w.game.rider.shieldTimer - deltaTime
                                  ELSE w.game.rider.shieldTimer
                            /\ rider.score = turned.game.rider.score
                                  + (deltaTime * 10 * POINT) \div MS

\* a rider that died in a tick and has the passive score of every tick of the
\* session, the last one included
C21_DiedWithFullScore ==
    /\ game.gameOver /\ ~game.rider.alive
    /\ game.gameTime > 0
    /\ game.rider.score * MS >= game.gameTime * 10 * POINT

----------------------------------------------------------------------------
\* the rider the effect table gives for a collection of the given type by
\* rider r; grows says whether an Energy collection appends a tail segment
TableRider(r, type, grows) ==
    LET last == r.segments[r.segmentCount - 1]
        tail == [last EXCEPT !.position = Vector3Add(last.position,
                                                     Vec(0, 0, -SEGMENT_SPACING)),
                             !.isHead = FALSE]
        shrunk == Max2(INITIAL_SEGMENTS, r.segmentCount - 3)
        count == IF type = POWERUP_ENERGY /\ grows THEN r.segmentCount + 1
                 ELSE IF type = POWERUP_SHRINK THEN shrunk
                 ELSE r.segmentCount
    IN  [r EXCEPT
            !.energy = IF type = POWERUP_ENERGY
                       THEN (IF @ + ENERGY_BAR_VALUE < MAX_ENERGY
                             THEN @ + ENERGY_BAR_VALUE ELSE MAX_ENERGY)
                       ELSE @,
            !.boosted = IF type = POWERUP_SPEED_BOOST THEN TRUE ELSE @,
            !.boostTimer = IF type = POWERUP_SPEED_BOOST THEN 5 * MS ELSE @,
            !.shieldTimer = IF type = POWERUP_SHIELD THEN 10 * MS ELSE @,
            !.score = @ + 50 * POINT
                        + (IF type = POWERUP_BONUS_POINTS THEN 500 * POINT ELSE 0),
            !.segmentCount = count,
            !.segments = [i \in 0..(count - 1) |->
                             IF i = r.segmentCount THEN tail ELSE r.segments[i]]]

\* a collection of every type from the current state matches the table
MatchesTable(grows) ==
    \A type \in POWERUP_ENERGY..POWERUP_BONUS_POINTS :
        \A slot \in {FirstFreePowerup(game.powerups)} :
            \A after \in {SpawnAndCollect(Now, type).game} :
                /\ after.rider = TableRider(game.rider, type, grows)
                /\ after.slowTimeMultiplier =
                      IF type = POWERUP_SLOW_TIME THEN ONE \div 2
                      ELSE game.slowTimeMultiplier
                /\ ~after.powerups[slot].active
                /\ after.rider.segmentCount > game.rider.segmentCount
                      => type = POWERUP_ENERGY

\* C22, as claimed: CollectPowerup matches the effect table for every type
\* and every rider state, an Energy collection appending one tail segment.
C22_EffectTable == MatchesTable(TRUE)

\* C22, amended: CollectPowerup matches the effect table for every type and
\* every rider state, an Energy collection appending one tail segment while
\* segmentCount < MAX_SEGMENTS - 1 and none from there on.
C22_EffectTableBelowLimit == MatchesTable(game.rider.segmentCount < MAX_SEGMENTS - 1)

\* an Energy collection by a rider of MAX_SEGMENTS - 1 segments took place:
\* the energy is full, the bonus is in the score, the rider has not grown
C22_EnergyAtLimit ==
    /\ played # << >> /\ played[1] = "soundPickup"
    /\ game.rider.segmentCount = MAX_SEGMENTS - 1
    /\ game.rider.energy = MAX_ENERGY
    /\ game.rider.score >= 2 * 50 * POINT

----------------------------------------------------------------------------
\* the pool after its powerups have lost time of their lifetime
Ageing(w, time) ==
    [w EXCEPT !.game.powerups =
        [i \in DOMAIN @ |-> IF @[i].active THEN [@[i] EXCEPT !.lifetime = @ - time]
                            ELSE @[i]]]

\* the worlds UpdatePowerups may be called on in a frame with input e from the
\* current state: the one the frame's UpdateLineRider and UpdateParticles
\* leave, and that one late in the life of its powerups
PowerupWorlds(e) ==
    LET toggled == UpdateToggles(Now, e)
    IN  IF game.inMenu \/ ~RiderTicks(toggled) THEN {}
        ELSE UNION {{mid, Ageing(mid, (292 * MS) \div 10)} :
                       mid \in {UpdateParticles(UpdateLineRider(toggled, e), e.deltaTime)}}

\* the powerups of w that UpdatePowerups finds alive after taking deltaTime off
Lasting(w, deltaTime) ==
    {i \in 0..(POWERUP_COUNT - 1) :
        w.game.powerups[i].active /\ w.game.powerups[i].lifetime - deltaTime > 0}

\* the powerups of w within reach of the head once animated as in after
Reached(w, after) ==
    {i \in 0..(POWERUP_COUNT - 1) :
        CloserThan(w.game.rider.segments[0].position, after.game.powerups[i].position,
                   SEGMENT_SIZE + POWERUP_SIZE)}

\* C23: UpdatePowerups takes deltaTime off the lifetime of every active
\* powerup; one whose lifetime becomes <= 0 is deactivated without its effect,
\* also with the head in range; any other is collected exactly when the rider
\* is alive and the head is closer than SEGMENT_SIZE + POWERUP_SIZE; a dead
\* rider collects nothing, and a collected powerup is inactive, so that it is
\* not collected again.
C23_ExpiryBeforeCollection ==
    \A e \in Inputs :
      \A w \in PowerupWorlds(e) :
        \A after \in {UpdatePowerups(w, e.deltaTime)} :
          \A collected \in {IF w.game.rider.alive
                             THEN Lasting(w, e.deltaTime) \cap Reached(w, after)
                             ELSE {}} :
            /\ \A i \in 0..(POWERUP_COUNT - 1) :
                  /\ w.game.powerups[i].active =>
                        after.game.powerups[i].lifetime
                            = w.game.powerups[i].lifetime - e.deltaTime
                  /\ ~w.game.powerups[i].active =>
                        after.game.powerups[i] = w.game.powerups[i]
                  /\ after.game.powerups[i].active
                        = (i \in Lasting(w, e.deltaTime) /\ i \notin collected)
            /\ after.game.rider.score = w.game.rider.score
                  + 50 * POINT * Cardinality(collected)
                  + 500 * POINT * Cardinality({i \in collected :
                        w.game.powerups[i].type = POWERUP_BONUS_POINTS})
            /\ collected = {} =>
                  /\ after.game.rider = w.game.rider
                  /\ after.game.slowTimeMultiplier = w.game.slowTimeMultiplier
                  /\ after.played = w.played

\* a frame is about to bring the head within reach of a powerup whose
\* lifetime ends in that frame
C23_ExpiresWithinReach ==
    \E e \in Inputs :
      \E w \in PowerupWorlds(e) :
        /\ w.game.rider.alive
        /\ \E i \in Reached(w, w) :
              /\ w.game.powerups[i].active
              /\ i \notin Lasting(w, e.deltaTime)

----------------------------------------------------------------------------
\* the record of the difficulty g is played on
Record(g) ==
    IF g.difficulty = DIFFICULTY_HARDCORE THEN g.highScoreHardcore ELSE g.highScore

\* C24: whatever the frame that follows a game over carries (nothing, the
\* restart trigger, the menu-return trigger, by key or by gamepad), the record
\* of the session's difficulty is at least the whole part of the final score
\* after it, the session reinitialised or the menu entered included: the
\* first frame after the death saves before it looks at the triggers.
C24_NoFinalScoreLost ==
    Mode(game) = "GameOver" =>
        \A e \in SessionInputs \cup SessionPadInputs :
            \A after \in {UpdateGame(Now, e).game} :
                /\ after.difficulty = game.difficulty
                /\ Record(after) >= game.rider.score \div POINT
                /\ Record(after) = Max2(Record(game), game.rider.score \div POINT)
                /\ StartTrigger(e) => Mode(after) = "Playing" /\ after.rider.score = 0
                /\ (~StartTrigger(e) /\ MenuTrigger(e)) => Mode(after) = "Menu"

\* back in the menu on the first frame after the death of the first session,
\* its final score on record
C24_LeftOnFirstFrame ==
    /\ game.inMenu
    /\ frame <= 4
    /\ Record(game) > 0
    /\ Record(game) = game.rider.score \div POINT

----------------------------------------------------------------------------
(* Running dry: a session on either difficulty receives unpaused frames of 5 s *)
(* and 10 s, steered in the first DrainFrames of them, and no frame in which   *)
(* an Energy powerup is collected.                                             *)

DrainFrames == 3

\* the frame with input e from world w collects an Energy powerup: the energy
\* UpdateLineRider has drained rises in UpdatePowerups
PicksEnergy(w, e) ==
    \A mid \in {UpdateParticles(UpdateLineRider(UpdateToggles(w, e), e), e.deltaTime)} :
        UpdatePowerups(mid, e.deltaTime).game.rider.energy > mid.game.rider.energy

\* a session just started on either difficulty, as it is or with a SlowTime
\* powerup just collected
DrainInit ==
    \E s \in Seeds, keys \in {{"KEY_LEFT"}, {"KEY_RIGHT"}}, slowed \in BOOLEAN :
        \E started \in {UpdateGame(UpdateGame(World(MenuGame, s, 0, << >>),
                                              Input(MS \div 2, {}, keys)),
                                   Input(MS \div 2, {}, {"KEY_ENTER"}))} :
            \E w \in {IF slowed THEN SpawnAndCollect(started, POWERUP_SLOW_TIME)
                                 ELSE started} :
                /\ game = w.game
                /\ randState = w.rand
                /\ lastTurnSound = w.lastTurnSound
                /\ played = w.played
                /\ frame = 0

\* the frames a session may receive: steered ones of 5 s and 10 s in its first
\* DrainFrames frames, idle ones of 10 s from there on
DrainInputs ==
    IF frame < DrainFrames
    THEN {Input(5 * MS, {}, {}), Input(10 * MS, {}, {}), Input(10 * MS, {"KEY_SPACE"}, {})}
    ELSE {Input(10 * MS, {}, {})}

\* the frame counter counts the steered frames and alternates between
\* DrainFrames and DrainFrames + 1 from there on: every frame changes it
FrameAfter(f) == IF f < DrainFrames THEN f + 1 ELSE 2 * DrainFrames + 1 - f

\* one iteration of main's loop in a session that is on
DrainTick ==
    /\ Mode(game) = "Playing"
    /\ \E e \in DrainInputs :
         /\ ~PicksEnergy(Now, e)
         /\ \E w \in {UpdateGame(Now, e)} :
               /\ game' = w.game
               /\ randState' = w.rand
               /\ lastTurnSound' = w.lastTurnSound
               /\ played' = w.played
               /\ frame' = FrameAfter(frame)

\* main's loop goes on to the next frame
NextFrame == Mode(game) = "Playing" /\ frame' = FrameAfter(frame)

\* the loop of main does not stop while the window is open: a session that is
\* on keeps receiving frames
DrainSpec == DrainInit /\ [][DrainTick]_vars /\ WF_frame(NextFrame)

\* C25: a session that keeps receiving unpaused frames in which no Energy
\* powerup is collected reaches game over, and while it has not, its
\* accumulated frame time is below
\* MAX_ENERGY / (ENERGY_DRAIN_RATE x difficultyMultiplier x 0.5) seconds.
C25_EnergyRunsOut ==
    /\ [](Mode(game) = "Playing" =>
            game.gameTime * ENERGY_DRAIN_RATE * game.difficultyMultiplier
                < 2 * MAX_ENERGY * MS)
    /\ <>(Mode(game) = "GameOver")

\* a session that ran out of energy, having started in slow time: apart from
\* the 50 points of the collection its score is below 10 per second
C25_Exhausted ==
    /\ Mode(game) = "GameOver"
    /\ game.rider.energy = 0
    /\ game.rider.turnsCompleted = 0
    /\ game.rider.score * MS > game.gameTime * 10 * POINT
    /\ game.rider.score * MS < game.gameTime * 10 * POINT + 50 * POINT * MS

----------------------------------------------------------------------------
\* UpdatePowerups, called on world w, collects an Energy powerup
TakesEnergy(w, deltaTime) ==
    /\ w.game.rider.alive
    /\ \E i \in Lasting(w, deltaTime) \cap Reached(w, UpdatePowerups(w, deltaTime)) :
          w.game.powerups[i].type = POWERUP_ENERGY

\* C26: a frame in which the rider ticks (alive, not paused, deltaTime > 0)
\* and no Energy powerup is collected ends with less energy than it started
\* with; a frame that ends with more energy than it started with collected an
\* Energy powerup or called InitGame; and the collection of a powerup of any
\* other type leaves the energy as it was.
C26_EnergyOnlyFalls ==
    /\ \A e \in Inputs :
          \A after \in {UpdateGame(Now, e).game} :
            \A toggled \in {UpdateToggles(Now, e)} :
              \A taken \in {/\ ~game.inMenu /\ RiderTicks(toggled)
                             /\ TakesEnergy(UpdateParticles(UpdateLineRider(toggled, e),
                                                             e.deltaTime),
                                            e.deltaTime)} :
                /\ (~game.inMenu /\ RiderTicks(toggled) /\ e.deltaTime > 0 /\ ~taken)
                      => after.rider.energy < game.rider.energy
                /\ after.rider.energy > game.rider.energy
                      => (taken \/ StartsSession(game, e))
    /\ (~game.inMenu /\ game.rider.segmentCount > 0) =>
          \A type \in (POWERUP_ENERGY..POWERUP_BONUS_POINTS) \ {POWERUP_ENERGY} :
              SpawnAndCollect(Now, type).game.rider.energy = game.rider.energy

\* the frame that led here collected an Energy powerup and ended with more
\* energy than the drain of the session so far leaves
C26_Refuelled ==
    /\ Mode(game) = "Playing"
    /\ Heard(World(game, randState, lastTurnSound, played), "soundPickup")
    /\ game.rider.segmentCount > INITIAL_SEGMENTS
    /\ (MAX_ENERGY - game.rider.energy) * MS
          < game.gameTime * ENERGY_DRAIN_RATE * game.difficultyMultiplier

----------------------------------------------------------------------------
\* a coordinate of the head after the wrap: reflected through the origin and
\* scaled by 0.95 when it is beyond ARENA_SIZE / 2, as it was otherwise
Reflected(c) == IF Abs(c) > ARENA_SIZE \div 2 THEN Trunc(-c * 95, 100) ELSE c

\* C27: the wrap step of a tick sets a head coordinate x or z that is beyond
\* ARENA_SIZE / 2 after the advance to -0.95 times itself, each axis on its
\* own and both in the same tick, and leaves the other head fields and every
\* body segment as they were; with neither coordinate beyond ARENA_SIZE / 2
\* it changes nothing at all.
C27_WrapReflectsPerAxis ==
    \A e \in Inputs :
      \A toggled \in {UpdateToggles(Now, e)} :
        (~game.inMenu /\ RiderTicks(toggled)) =>
          \A deltaTime \in {RiderDeltaTime(toggled.game, e)} :
            \A followed \in {FollowChain(Advance(Turn(toggled, e, deltaTime), deltaTime))} :
              \A wrapped \in {WrapBoundary(followed)} :
                LET head == followed.game.rider.segments[0]
                    inside == /\ Abs(head.position.x) <= ARENA_SIZE \div 2
                              /\ Abs(head.position.z) <= ARENA_SIZE \div 2
                IN  /\ wrapped.game.rider =
                          [followed.game.rider EXCEPT
                              !.segments[0].position.x = Reflected(@),
                              !.segments[0].position.z = Reflected(@)]
                    /\ inside => wrapped = followed
                    /\ UpdateLineRider(toggled, e).game.rider.segments
                          = wrapped.game.rider.segments

\* a head that left the arena on both axes in the last tick and was sent to
\* the other side on both
C27_WrappedOnBothAxes ==
    /\ Mode(game) \in {"Playing", "GameOver"}
    /\ Sin(game.rider.direction) > 0 /\ Cos(game.rider.direction) > 0
    /\ Abs(game.rider.segments[0].previousPos.x) <= ARENA_SIZE \div 2
    /\ Abs(game.rider.segments[0].previousPos.z) <= ARENA_SIZE \div 2
    /\ game.rider.segments[0].position.x < -(ARENA_SIZE \div 2)
    /\ game.rider.segments[0].position.z < -(ARENA_SIZE \div 2)

----------------------------------------------------------------------------
\* the horizontal distance of a position from the centre of the arena
Radius(position) == Vector3Length(Vec(position.x, 0, position.z))

\* r is the distance d up to the 3/1000 by which this module's sinf and cosf
\* may be off and the hundredth of a unit of its lengths
About(r, d) == Abs(r - d) * 1000 <= 3 * d + 1000

\* the distance draw, radius and height of the positions SpawnPowerup may
\* choose, over a full period of either draw
Placements ==
    {[draw |-> distanceDraw, radius |-> Radius(position), height |-> position.y] :
        <<distanceDraw, position>> \in
            {<<distanceDraw, PlacePowerup(angleDraw, distanceDraw)>> :
                angleDraw \in 0..359, distanceDraw \in 0..39}}

\* r is between nearest and farthest, up to the same
Between(r, nearest, farthest) ==
    /\ (nearest - r) * 1000 <= 3 * nearest + 1000
    /\ (r - farthest) * 1000 <= 3 * farthest + 1000

\* every placement has height 1 and a radius within 10..farthest, and so has
\* every powerup of the pool, the height until UpdatePowerups animates it
PlacedWithin(farthest) ==
    /\ \A placed \in Placements :
          /\ placed.height = 1 * LEN
          /\ Between(placed.radius, 10 * LEN, farthest)
    /\ \A i \in 0..(POWERUP_COUNT - 1) :
          game.powerups[i].active =>
              /\ Between(Radius(game.powerups[i].position), 10 * LEN, farthest)
              /\ game.powerups[i].lifetime = POWERUP_LIFETIME
                    => game.powerups[i].position.y = 1 * LEN

\* C28, as claimed: every powerup SpawnPowerup activates is placed at height 1
\* and at a horizontal distance between 10 and 0.4 x ARENA_SIZE = 40 from the
\* centre, whatever the random draws.
C28_PlacedWithinForty == PlacedWithin((ARENA_SIZE * 4) \div 10)

\* C28, amended: every powerup SpawnPowerup activates is placed at height 1
\* and at a horizontal distance of 10 + (rand() % 40), between 10 and
\* 10 + 0.4 x ARENA_SIZE - 1 = 49, from the centre, whatever the random draws.
C28_PlacedWithinFortyNine ==
    /\ PlacedWithin(10 * LEN + (ARENA_SIZE * 4) \div 10 - 1 * LEN)
    /\ \A placed \in Placements :
          About(placed.radius, 10 * LEN + placed.draw * LEN)

\* a powerup of the pool lies farther than 0.4 x ARENA_SIZE from the centre
C28_PlacedBeyondForty ==
    \E i \in 0..(POWERUP_COUNT - 1) :
        /\ game.powerups[i].active
        /\ game.powerups[i].lifetime = POWERUP_LIFETIME
        /\ Radius(game.powerups[i].position) > (ARENA_SIZE * 45) \div 100

----------------------------------------------------------------------------
(* The life of a powerup *)

\* the lifetimes a powerup may show between the frames of DrainInputs
Lifetimes == {(n * POWERUP_LIFETIME) \div 6 : n \in 1..6}

\* slot i holds a powerup with the given lifetime left
Holds(i, lifetime) ==
    game.powerups[i].active /\ game.powerups[i].lifetime = lifetime

\* slot i of after holds the powerup it holds now, deltaTime older
Aged(after, i, deltaTime) ==
    /\ after.game.powerups[i].active
    /\ after.game.powerups[i].lifetime = game.powerups[i].lifetime - deltaTime
    /\ after.game.powerups[i].lifetime > 0
    /\ after.game.powerups[i].type = game.powerups[i].type
    /\ after.game.powerups[i].bobOffset = game.powerups[i].bobOffset

\* slot i of after holds a powerup SpawnPowerup has just put there
Replaced(after, i) ==
    /\ after.game.powerups[i].active
    /\ after.game.powerups[i].lifetime = POWERUP_LIFETIME
    /\ after.game.powerups[i].rotation = 0

\* C29: an active powerup has a lifetime above 0 and of at most
\* POWERUP_LIFETIME; every frame of a session that is on takes the unscaled
\* frame time off it, and leaves the slot inactive, or with a newly spawned
\* powerup, when that ends the lifetime; so a powerup is gone after at most
\* POWERUP_LIFETIME seconds of frames, unless the session stops being on.
C29_PowerupsExpire ==
    /\ [](\A i \in 0..(POWERUP_COUNT - 1) :
            game.powerups[i].active =>
                /\ game.powerups[i].lifetime > 0
                /\ game.powerups[i].lifetime <= POWERUP_LIFETIME)
    /\ [](Mode(game) = "Playing" =>
            \A e \in DrainInputs :
              \A after \in {UpdateGame(Now, e)} :
                \A i \in 0..(POWERUP_COUNT - 1) :
                  game.powerups[i].active =>
                      \/ Aged(after, i, e.deltaTime)
                      \/ ~after.game.powerups[i].active
                      \/ /\ Replaced(after, i)
                         /\ \/ game.powerups[i].lifetime <= e.deltaTime
                            \/ after.game.rider.score >= game.rider.score + 50 * POINT)
    /\ \A i \in 0..(POWERUP_COUNT - 1) :
          \A lifetime \in Lifetimes :
            (Mode(game) = "Playing" /\ Holds(i, lifetime))
                ~> \/ Mode(game) # "Playing"
                   \/ ~game.powerups[i].active
                   \/ game.powerups[i].lifetime > lifetime

\* a session that is on has outlasted a powerup: the slot is inactive with
\* the lifetime used up
C29_TimedOut ==
    /\ Mode(game) = "Playing"
    /\ \E i \in 0..(POWERUP_COUNT - 1) :
          /\ ~game.powerups[i].active
          /\ game.powerups[i].lifetime <= 0
          /\ game.powerups[i].position.y > 0

----------------------------------------------------------------------------
(* Slow time *)

\* the frame with input e from world w collects a SlowTime powerup
PicksSlowTime(w, e) ==
    \A mid \in {UpdateParticles(UpdateLineRider(UpdateToggles(w, e), e), e.deltaTime)} :
      \A after \in {UpdatePowerups(mid, e.deltaTime)} :
        \E i \in 0..(POWERUP_COUNT - 1) :
            /\ mid.game.powerups[i].active
            /\ mid.game.powerups[i].type = POWERUP_SLOW_TIME
            /\ mid.game.powerups[i].lifetime > e.deltaTime
            /\ ~after.game.powerups[i].active

\* the world after idle frames of the given times
RECURSIVE Ridden(_, _)
Ridden(w, frames) ==
    IF frames = << >> THEN w
    ELSE The({Ridden(next, Tail(frames)) :
                 next \in {UpdateGame(w, Input(Head(frames), {}, {}))}})

\* a session that has just collected a SlowTime powerup, at its start or
\* after 65 s of riding
SlowInit ==
    \E s \in Seeds, keys \in {{"KEY_LEFT"}, {"KEY_RIGHT"}},
       lead \in {<< >>, <<10 * MS, 10 * MS, 10 * MS, 10 * MS, 10 * MS, 10 * MS, 5 * MS>>} :
        \E started \in {UpdateGame(UpdateGame(World(MenuGame, s, 0, << >>),
                                              Input(MS \div 2, {}, keys)),
                                   Input(MS \div 2, {}, {"KEY_ENTER"}))} :
            \E w \in {SpawnAndCollect(Ridden(started, lead), POWERUP_SLOW_TIME)} :
                /\ Mode(w.game) = "Playing"
                /\ game = w.game
                /\ randState = w.rand
                /\ lastTurnSound = w.lastTurnSound
                /\ played = w.played
                /\ frame = 0

\* the frames a slowed session may receive: of 1 s and 2 s, steered or not, in its first
\* DrainFrames frames, idle ones of 10 s from there on
SlowInputs ==
    IF frame < DrainFrames
    THEN {Input(1 * MS, {}, {}), Input(2 * MS, {}, {}), Input(2 * MS, {"KEY_SPACE"}, {})}
    ELSE {Input(10 * MS, {}, {})}

\* one iteration of main's loop, the session on or over, that collects no
\* SlowTime powerup
SlowTick ==
    \E e \in SlowInputs :
        /\ ~PicksSlowTime(Now, e)
        /\ \E w \in {UpdateGame(Now, e)} :
              /\ game' = w.game
              /\ randState' = w.rand
              /\ lastTurnSound' = w.lastTurnSound
              /\ played' = w.played
              /\ frame' = FrameAfter(frame)

\* main's loop goes on to the next frame, whatever the session's mode
SlowFrame == frame' = FrameAfter(frame)

\* the loop of main does not stop while the window is open
SlowSpec == SlowInit /\ [][SlowTick]_vars /\ WF_frame(SlowFrame)

\* the multiplier a frame of deltaTime leaves of slow: 0.1 x deltaTime
\* higher, and 1 at most
Recovered(slow, deltaTime) ==
    IF slow >= ONE THEN slow
    ELSE IF slow + (deltaTime * ONE) \div (10 * MS) > ONE THEN ONE
    ELSE slow + (deltaTime * ONE) \div (10 * MS)

\* the multiplier is within 0.5..1, a SlowTime powerup collected now sets it
\* to 0.5, and a frame of a session that is on leaves it recovered by the
\* frame's time, from 0.5 when the frame collects a SlowTime powerup
SlowTimeSteps ==
    /\ game.slowTimeMultiplier >= ONE \div 2
    /\ game.slowTimeMultiplier <= ONE
    /\ \A type \in 0..(POWERUP_TYPE_COUNT - 1) :
          SpawnAndCollect(Now, type).game.slowTimeMultiplier
              = IF type = POWERUP_SLOW_TIME THEN ONE \div 2 ELSE game.slowTimeMultiplier
    /\ Mode(game) = "Playing" =>
          \A e \in SlowInputs :
              UpdateGame(Now, e).game.slowTimeMultiplier
                  = Recovered(IF PicksSlowTime(Now, e) THEN ONE \div 2
                              ELSE game.slowTimeMultiplier, e.deltaTime)

\* C30, as claimed: slowTimeMultiplier is within 0.5..1; collecting SlowTime
\* sets it to 0.5, every simulated frame raises it by 0.1 x dt up to 1, and
\* with no further SlowTime collected it is eventually 1 for good.
C30_SlowTimeRecovers ==
    /\ []SlowTimeSteps
    /\ <>[](game.slowTimeMultiplier = ONE)

\* C30, amended: slowTimeMultiplier is within 0.5..1; collecting SlowTime
\* sets it to 0.5, every simulated frame raises it by 0.1 x dt up to 1, and
\* with no further SlowTime collected it is eventually 1 for good unless
\* the session stops being on before, which leaves it as it is.
C30_SlowTimeRecoversWhileOn ==
    /\ []SlowTimeSteps
    /\ <>[](game.slowTimeMultiplier = ONE \/ Mode(game) # "Playing")
    /\ [][Mode(game) # "Playing" =>
            game'.slowTimeMultiplier = game.slowTimeMultiplier]_vars

\* a session that was slowed rides at full speed again
C30_BackToFullSpeed ==
    /\ Mode(game) = "Playing"
    /\ frame > 0
    /\ game.slowTimeMultiplier = ONE
    /\ game.rider.score >= 50 * POINT

----------------------------------------------------------------------------
(* The mode flags *)

\* the mode flags of g that are set
FlagsSet(g) == {flag \in {"inMenu", "paused", "gameOver"} : g[flag]}

\* frames in which any of the start, menu-return and pause keys are pressed
\* together
TriggerInputs ==
    {Input(21 * (MS \div 10), {}, keys) : keys \in SUBSET {"KEY_ENTER", "KEY_M", "KEY_P"}}

\* C31: at most one of inMenu, paused and gameOver is set, in every state
\* of a session and after a frame with any combination of the start,
\* restart, menu-return and pause triggers, from keyboard or gamepad.
C31_ModeFlagsExclusive ==
    /\ Cardinality(FlagsSet(game)) <= 1
    /\ \A e \in SessionInputs \cup SessionPadInputs \cup TriggerInputs :
          Cardinality(FlagsSet(UpdateGame(Now, e).game)) <= 1

\* a session is paused that was started after an earlier one had ended
C31_PausedSecondSession ==
    /\ Mode(game) = "Paused"
    /\ game.highScore + game.highScoreHardcore > 0

----------------------------------------------------------------------------
\* C32: outside the menu the rider is alive exactly when the game is not
\* over, in every state of a session and after every frame from it.
C32_AliveUnlessGameOver ==
    /\ ~game.inMenu => (game.rider.alive <=> ~game.gameOver)
    /\ \A e \in SessionInputs \cup SessionPadInputs \cup TriggerInputs :
          \A after \in {UpdateGame(Now, e).game} :
              ~after.inMenu => (after.rider.alive <=> ~after.gameOver)

\* a rider is alive again in a session restarted after the death of the
\* last one
C32_AliveAfterRestart ==
    /\ Mode(game) = "Playing"
    /\ game.rider.alive
    /\ game.gameTime > 0
    /\ game.highScore + game.highScoreHardcore > 0

----------------------------------------------------------------------------
(* After game over *)

\* frames in which the sound and FPS keys are pressed, alone, together and
\* with the pause key
DisplayInputs ==
    {Input(21 * (MS \div 10), {}, keys) :
        keys \in {{"KEY_S"}, {"KEY_F"}, {"KEY_S", "KEY_F"}, {"KEY_S", "KEY_F", "KEY_P"}}}

\* the frames that carry neither the restart nor the menu-return trigger
FrozenInputs ==
    {e \in SessionInputs \cup SessionPadInputs \cup TriggerInputs \cup DisplayInputs :
        ~StartTrigger(e) /\ ~MenuTrigger(e)}

\* g with the record of its difficulty raised to its score, if that is higher
WithRecord(g) ==
    IF g.difficulty = DIFFICULTY_HARDCORE
    THEN [g EXCEPT !.highScoreHardcore = Max2(@, g.rider.score \div POINT)]
    ELSE [g EXCEPT !.highScore = Max2(@, g.rider.score \div POINT)]

\* g with soundEnabled and showFPS flipped where the keys say so
WithToggles(g, keys) ==
    [g EXCEPT !.soundEnabled = IF "KEY_S" \in keys THEN ~@ ELSE @,
              !.showFPS = IF "KEY_F" \in keys THEN ~@ ELSE @]

\* every frame of FrozenInputs after game over leaves the game as it is but
\* for the record and the flags of the given keys, and rand() and the
\* turn-sound clock as they are
FrozenBut(keys) ==
    Mode(game) = "GameOver" =>
        \A e \in FrozenInputs :
            \A after \in {UpdateGame(Now, e)} :
                /\ after.game = WithToggles(WithRecord(game), e.keyPressed \cap keys)
                /\ after.rand = randState
                /\ after.lastTurnSound = lastTurnSound

\* C33, as claimed: a frame after game over that carries neither the restart
\* nor the menu-return trigger changes nothing but, possibly, the high score
\* of the selected difficulty, which it raises to the final score.
C33_GameOverFrozen == FrozenBut({})

\* C33, amended: a frame after game over that carries neither the restart
\* nor the menu-return trigger changes nothing but, possibly, the high score
\* of the selected difficulty, which it raises to the final score, and
\* soundEnabled and showFPS, which the S and F keys flip; rider, powerups,
\* particles, spawn countdown and game time are as they were.
C33_GameOverFrozenButToggles ==
    /\ FrozenBut({"KEY_S", "KEY_F"})
    /\ Mode(game) = "GameOver" =>
          \A e \in FrozenInputs :
              /\ Simulation(UpdateGame(Now, e).game) = Simulation(game)
              /\ UpdateGame(Now, e).game.cameraShake = game.cameraShake

\* a frame has passed over a game that is over: the final score is on
\* record, and a powerup is still waiting
C33_OverWithPowerupWaiting ==
    /\ Mode(game) = "GameOver"
    /\ game.rider.score >= 1 * POINT
    /\ Record(game) = game.rider.score \div POINT
    /\ \E i \in 0..(POWERUP_COUNT - 1) : game.powerups[i].active

----------------------------------------------------------------------------
(* The difficulty of a session *)

\* the difficulty-select trigger: the left and right keys, or the gamepad's
\* D-pad
SelectTrigger(e) ==
    \/ IsKeyPressed(e, "KEY_LEFT") \/ IsKeyPressed(e, "KEY_RIGHT")
    \/ /\ e.activeGamepad >= 0
       /\ \/ IsGamepadButtonPressed(e, "GAMEPAD_BUTTON_LEFT_FACE_LEFT")
          \/ IsGamepadButtonPressed(e, "GAMEPAD_BUTTON_LEFT_FACE_RIGHT")

\* frames in which a difficulty is selected from the gamepad, or from the
\* keyboard together with the start and menu-return keys
SelectInputs ==
    {PadInput(21 * (MS \div 10), {}, {button}, 0, 0) :
        button \in {"GAMEPAD_BUTTON_LEFT_FACE_LEFT", "GAMEPAD_BUTTON_LEFT_FACE_RIGHT"}}
    \cup {Input(21 * (MS \div 10), {}, {arrow, key}) :
            arrow \in {"KEY_LEFT", "KEY_RIGHT"}, key \in {"KEY_ENTER", "KEY_M", "KEY_P"}}

\* the multiplier and the rider's speed are those of g's difficulty
AtSpeedOfDifficulty(g) ==
    /\ g.difficultyMultiplier
          = (IF g.difficulty = DIFFICULTY_HARDCORE THEN HARDCORE_SPEED_MULTI ELSE 1)
    /\ g.rider.speed = LINE_RIDER_SPEED * g.difficultyMultiplier

\* C34: a frame changes the difficulty only in the menu and on a
\* difficulty-select trigger; outside the menu no frame changes difficulty or
\* difficultyMultiplier, the multiplier is 2 on Hardcore and 1 on Easy, and
\* rider.speed is LINE_RIDER_SPEED times the multiplier.
C34_DifficultyFixedInSession ==
    /\ ~game.inMenu => AtSpeedOfDifficulty(game)
    /\ \A e \in SessionInputs \cup SessionPadInputs \cup TriggerInputs \cup SelectInputs :
          \A after \in {UpdateGame(Now, e).game} :
              /\ after.difficulty # game.difficulty => game.inMenu /\ SelectTrigger(e)
              /\ ~game.inMenu => after.difficultyMultiplier = game.difficultyMultiplier
              /\ ~after.inMenu => AtSpeedOfDifficulty(after)

\* a Hardcore session that follows an Easy one
C34_HardcoreAfterEasy ==
    /\ ~game.inMenu
    /\ game.difficulty = DIFFICULTY_HARDCORE
    /\ game.highScore > 0

----------------------------------------------------------------------------
(* The cumulative rotation *)

\* frames of 2.5 s and 5 s the process was held up for with the turn key down
LongTurnInputs == {Input(dt, {"KEY_SPACE"}, {}) : dt \in {25 * (MS \div 10), 5 * MS}}

\* the turn amount of a frame with input e from the current state
TurnAmount(e) ==
    ((((TURN_SPEED * TurnRate(e)) \div ONE) * RiderDeltaTime(game, e)) \div MS)
        * game.difficultyMultiplier

InRange(rotation) == 0 <= rotation /\ rotation < 2 * PI

\* C35: rider.totalRotation is at least 0 and below 2 PI in every state, and
\* after every frame, those the process was held up for included.
C35_RotationInRange ==
    /\ InRange(game.rider.totalRotation)
    /\ \A e \in Inputs \cup LongTurnInputs :
          InRange(UpdateGame(Now, e).game.rider.totalRotation)

\* a frame from a rotation in range leaves it in range when it turns by less
\* than 2 PI, and 2 PI or more lower than the turn would make it otherwise
RotationInRangeOnShortTurns ==
    \A e \in Inputs \cup LongTurnInputs :
        \A after \in {UpdateGame(Now, e).game} :
            (InRange(game.rider.totalRotation) /\ after.gameTime > game.gameTime) =>
                IF TurnAmount(e) < 2 * PI
                THEN InRange(after.rider.totalRotation)
                ELSE after.rider.totalRotation
                        = game.rider.totalRotation + TurnAmount(e) - 2 * PI

----------------------------------------------------------------------------
(* The head and the arena *)

InsideArena(position) ==
    /\ Abs(position.x) <= ARENA_SIZE \div 2
    /\ Abs(position.z) <= ARENA_SIZE \div 2

\* a coordinate the advance has left within the arena, or beyond its wall by
\* so little that -0.95 times it is within
WithinReflection(c) == Abs(c) * 95 < (ARENA_SIZE \div 2 + 1) * 100

\* C36: in every state of a session the head is within the arena square:
\* |head.x| <= ARENA_SIZE / 2 and |head.z| <= ARENA_SIZE / 2.
C36_HeadInsideArena ==
    ~game.inMenu => InsideArena(game.rider.segments[0].position)

\* a tick leaves the head within the arena exactly when its advance has left
\* both coordinates within reach of the reflection
HeadInsideAfterShortSteps ==
    \A e \in Inputs \cup PadInputs :
      \A toggled \in {UpdateToggles(Now, e)} :
        (~game.inMenu /\ RiderTicks(toggled)) =>
          \A deltaTime \in {RiderDeltaTime(toggled.game, e)} :
            \A advanced \in {Advance(Turn(toggled, e, deltaTime), deltaTime)} :
              InsideArena(UpdateGame(Now, e).game.rider.segments[0].position)
                  <=> /\ WithinReflection(advanced.game.rider.segments[0].position.x)
                      /\ WithinReflection(advanced.game.rider.segments[0].position.z)

----------------------------------------------------------------------------
(* The turn sound *)

\* the sounds of the frame with input e from the current state
SoundsOf(e) == UpdateGame(Now, e).played

\* the frame with input e turns the rider, at the game time given
TurningAt(e, gameTime) ==
    /\ ~game.inMenu
    /\ game.soundEnabled
    /\ RiderTicks(UpdateToggles(Now, e))
    /\ TurnAmount(e) > 0
    /\ UpdateToggles(Now, e).game.gameTime = gameTime

\* C37: in every session, a first one or one started by a restart, a frame
\* with turn input at a game time more than 0.1 s after the session's last
\* turn sound, or after the session's start when the rider has not turned in
\* it yet, plays the turn sound.
C37_TurnSoundPerSession ==
    \A e \in Inputs :
      \A gameTime \in {UpdateToggles(Now, e).game.gameTime} :
        \A last \in {IF game.rider.direction = 0 THEN 0 ELSE lastTurnSound} :
          (TurningAt(e, gameTime) /\ gameTime - last > MS \div 10) =>
              \E n \in DOMAIN SoundsOf(e) : SoundsOf(e)[n] = "soundTurn"

\* a turning frame plays the turn sound exactly when the game time is more
\* than 0.1 s past the time of the last turn sound of the program, the
\* sessions before this one included; it then keeps the game time as that
\* time, and no restart resets it
TurnSoundSinceLastOfProgram ==
    \A e \in Inputs :
      \A gameTime \in {UpdateToggles(Now, e).game.gameTime} :
        /\ TurningAt(e, gameTime) =>
              /\ (\E n \in DOMAIN SoundsOf(e) : SoundsOf(e)[n] = "soundTurn")
                    <=> gameTime - lastTurnSound > MS \div 10
              /\ UpdateGame(Now, e).lastTurnSound
                    = (IF gameTime - lastTurnSound > MS \div 10 THEN gameTime
                       ELSE lastTurnSound)
        /\ ~TurningAt(e, gameTime) => UpdateGame(Now, e).lastTurnSound = lastTurnSound

----------------------------------------------------------------------------
(* What slow time slows *)

\* frames of 50 ms, steered or not
FineInputs == {Input(MS \div 20, down, {}) : down \in {{}, {"KEY_SPACE"}}}

\* a session that is on, as it is and with a SpeedBoost or a Shield just
\* collected
SlowedWorlds ==
    IF Mode(game) # "Playing" THEN {}
    ELSE {Now,
          [SpawnAndCollect(Now, POWERUP_SPEED_BOOST) EXCEPT !.played = << >>],
          [SpawnAndCollect(Now, POWERUP_SHIELD) EXCEPT !.played = << >>]}

\* the rider step from w to rode has used the time scaled
RiderStepUses(w, e, rode, scaled) ==
    LET rider == w.game.rider
        now == rode.game.rider
        boosting == rider.boosted /\ rider.boostTimer > 0
        step == ((IF boosting THEN (rider.speed * 3) \div 2 ELSE rider.speed) * scaled) \div MS
        energy == rider.energy
                  - ((ENERGY_DRAIN_RATE * scaled) \div MS) * w.game.difficultyMultiplier
    IN  /\ now.direction = rider.direction
              + ((((TURN_SPEED * TurnRate(e)) \div ONE) * scaled) \div MS)
                  * w.game.difficultyMultiplier
        /\ now.segments[0].previousPos = rider.segments[0].position
        /\ now.segments[0].position.x
              = Reflected(rider.segments[0].position.x
                          + Trunc(Sin(now.direction) * step, ONE))
        /\ now.segments[0].position.z
              = Reflected(rider.segments[0].position.z
                          + Trunc(Cos(now.direction) * step, ONE))
        /\ now.boostTimer = (IF boosting THEN rider.boostTimer - scaled ELSE rider.boostTimer)
        /\ now.shieldTimer
              = (IF rider.shieldTimer > 0 THEN rider.shieldTimer - scaled ELSE rider.shieldTimer)
        /\ now.energy = (IF energy <= 0 THEN 0 ELSE energy)
        /\ now.score = rider.score + (scaled * 10 * POINT) \div MS
              + (IF now.turnsCompleted > rider.turnsCompleted
                 THEN 100 * POINT * now.turnsCompleted ELSE 0)

\* the systems that take the game from rode, the rider step done, to after
\* have used the time deltaTime
SystemsUse(rode, after, deltaTime, slow) ==
    /\ \A i \in 0..(POWERUP_COUNT - 1) :
          rode.game.powerups[i].active =>
              after.game.powerups[i].lifetime
                  \in {rode.game.powerups[i].lifetime - deltaTime, POWERUP_LIFETIME}
    /\ IF rode.game.powerupSpawnTimer - deltaTime > 0
       THEN after.game.powerupSpawnTimer = rode.game.powerupSpawnTimer - deltaTime
       ELSE /\ after.game.powerupSpawnTimer >= (3 * MS) \div rode.game.difficultyMultiplier
            /\ after.game.powerupSpawnTimer < (6 * MS) \div rode.game.difficultyMultiplier
    /\ after.game.slowTimeMultiplier = Recovered(slow, deltaTime)
    /\ after.game.rider.score = rode.game.rider.score =>
          /\ \A j \in 0..(PARTICLE_COUNT - 1) :
                rode.game.particles[j].lifetime > 0 =>
                    /\ after.game.particles[j].lifetime
                          = rode.game.particles[j].lifetime - deltaTime
                    /\ after.game.particles[j].position.x
                          = rode.game.particles[j].position.x
                            + Trunc(rode.game.particles[j].velocity.x * deltaTime, MS)
          /\ after.game.cameraShake
                = (IF rode.game.cameraShake <= 0 THEN rode.game.cameraShake
                   ELSE Max2(0, rode.game.cameraShake - (deltaTime * 2 * ONE) \div MS))

\* C38: in a frame of a session that is on, the turn amount, the move of the
\* head, the boost and shield countdowns, the energy drain and the passive
\* score use the frame time times slowTimeMultiplier, and the particles, the
\* powerup lifetimes, the spawn countdown, the slow-time recovery and the
\* camera-shake decay use the frame time itself.
C38_SlowTimeScalesRiderOnly ==
    \A w \in SlowedWorlds :
      \A e \in SlowInputs \cup FineInputs :
        \A rode \in {UpdateLineRider(UpdateToggles(w, e), e)} :
          \A after \in {UpdateGame(w, e)} :
            /\ RiderStepUses(w, e, rode, (e.deltaTime * w.game.slowTimeMultiplier) \div ONE)
            /\ SystemsUse(rode, after, e.deltaTime,
                          IF PicksSlowTime(w, e) THEN ONE \div 2
                          ELSE w.game.slowTimeMultiplier)
            /\ after.game.gameTime = w.game.gameTime + e.deltaTime

\* a session rides in slow time, its score behind the 10 points per second
\* of its game time
C38_RidingSlowed ==
    /\ Mode(game) = "Playing"
    /\ frame > 0
    /\ game.slowTimeMultiplier < ONE
    /\ (game.rider.score - 50 * POINT) * MS < game.gameTime * 10 * POINT

----------------------------------------------------------------------------
(* The boost and its timer: a session started from the menu, frames of 2 s  *)
(* idle and 1.5 s steered, and SpeedBoost powerups collected between them     *)

BoostFrames == 6

BoostInputs ==
    {Input(MS \div 2, {}, {"KEY_ENTER"}), Input(2 * MS, {}, {}),
     Input(15 * (MS \div 10), {"KEY_SPACE"}, {})}

BoostTick == MainLoop(BoostInputs, BoostFrames)

\* a SpeedBoost powerup spawns and the rider collects it
CollectBoost ==
    /\ frame < BoostFrames
    /\ Mode(game) = "Playing"
    /\ \E w \in {SpawnAndCollect(Now, POWERUP_SPEED_BOOST)} :
          /\ game' = w.game
          /\ randState' = w.rand
          /\ played' = w.played
          /\ frame' = frame + 1
          /\ UNCHANGED lastTurnSound

BoostNext == BoostTick \/ CollectBoost

BoostSpec == Init /\ [][BoostNext]_vars

\* the rider is boosted exactly while its boost timer runs
BoostAgrees(rider) == rider.boosted <=> rider.boostTimer > 0

\* C39: between frames rider.boosted is true exactly when
\* rider.boostTimer > 0, through any frames and SpeedBoost collections, and
\* a frame of 50 ms or a stalled one keeps it so.
C39_BoostedWhileTimerRuns ==
    /\ BoostAgrees(game.rider)
    /\ \A e \in FineInputs \cup {Input(Stall, {}, {})} :
          BoostAgrees(UpdateGame(Now, e).game.rider)

\* a boost has run its five seconds out and is over
C39_BoostSpent ==
    /\ Mode(game) = "Playing"
    /\ ~game.rider.boosted
    /\ game.rider.boostTimer < 0
====
